---- MODULE Spec2Model ----
(***************************************************************************)
(* Model of ax/benchmark/benchmark.py: one benchmark replication           *)
(* (benchmark_replication) driving a Scheduler through its progress steps, *)
(* with the bookkeeping of costs, evaluated arms and best points, the      *)
(* wall-clock timeout, and the computation of the traces of the result.    *)
(***************************************************************************)
EXTENDS Integers, Sequences, FiniteSets, TLC

\* ------------------------------------------------------------------------
\* Bounds of the model
\* ------------------------------------------------------------------------
\* problem.num_trials ranges over 1..MaxTrials
MaxTrials == 2
\* method.timeout_hours ranges over None and 0..MaxTimeout
MaxTimeout == 2
\* wall-clock hours that pass while the scheduler produces one progress step
MaxTick == 1
\* length of the (finite) sequence of progress steps the scheduler yields
MaxSteps == 3
MaxLen == 3        \* longest optimization trace handed to compute_score_trace
MaxValue == 3      \* metric values are 0..MaxValue
MaxEntries == 2    \* most entries of a mapping handed to the oracle evaluator
MaxKey == 2        \* its keys are 0..MaxKey
MaxParam == 1      \* parameter values are 0..MaxParam
MaxBatch == 3      \* method.batch_size is None or in 1..MaxBatch
MaxPending == 2    \* method.max_pending_trials is in 1..MaxPending
MaxProblems == 2   \* most problems handed to benchmark_multiple_problems_methods
MaxMethods == 2    \* most methods handed to it
MaxSeeds == 2      \* most seeds handed to it
MaxPlotTrials == 2 \* most trials of an experiment handed to PredictedEffectsPlot
MaxConstraints == 2  \* most outcome constraints handed to the feasibility calculator
MaxPredictions == 2  \* most predictions handed to it
MaxObjectiveMetrics == 2  \* most metrics of a multi- or scalarized objective
MaxRepeats == 3      \* largest n_repeats of compute_baseline_value_from_sobol
MaxGenSteps == 2     \* most steps of a generation strategy handed to BenchmarkMethod

\* Python's None, for method.timeout_hours and remaining_hours
NONE == -1

VARIABLES
    pc,                 \* position of benchmark_replication
    is_moo,             \* problem.is_moo
    is_mf_or_mt,        \* len(problem.target_fidelity_and_task) > 0
    num_trials,         \* problem.num_trials
    timeout_hours,      \* method.timeout_hours (NONE or hours)
    simulated,          \* runner.simulated_backend_runner is not None
    trials,             \* experiment.trials: trial index -> status
    gen,                \* the generator run_trials_and_yield_results returned
    steps,              \* progress steps the generator has yielded so far
    now,                \* time.monotonic(), in hours
    start,              \* start = monotonic()
    sched_timeout,      \* timeout_hours argument the scheduler was given
    remaining_hours,
    previously_completed_trial_idcs,
    newly_completed_trials,
    cost,
    cost_trace,
    best_params_list,
    evaluated_arms_list,
    poll_calls,         \* calls of scheduler.poll_and_process_results
    summarize_calls,    \* calls of scheduler.summarize_final_result
    best_calls,         \* calls of method.get_best_parameters
    best_returned,      \* how many parameterizations the query of the last
                        \* step returned (NONE: the step did not ask)
    warned,             \* "The optimization loop timed out." was logged
    traces,             \* the traces computed after the loop
    result,             \* the BenchmarkResult returned
    rng_state,          \* the random number generators: "prior" or "seeded"
    experiment_runner,  \* experiment.runner
    logger_level,       \* level of the logger "ax.core.experiment"
    fn_args,            \* arguments of a function called on its own
    fn_out,             \* what that call returned or raised
    fn_prev             \* what the call before it returned or raised

config == <<is_moo, is_mf_or_mt, num_trials, timeout_hours, simulated>>

loop == <<trials, gen, steps, now, start, sched_timeout, remaining_hours,
          previously_completed_trial_idcs, newly_completed_trials, cost,
          cost_trace, best_params_list, evaluated_arms_list, poll_calls,
          best_calls, best_returned, warned>>

replication == <<pc, config, loop, summarize_calls, traces, result, rng_state,
                  experiment_runner>>

evaluator == <<logger_level, fn_args, fn_out, fn_prev>>

vars == <<replication, evaluator>>

\* ------------------------------------------------------------------------
\* Helpers
\* ------------------------------------------------------------------------

Max(S) == CHOOSE x \in S : \A y \in S : y <= x

TrialStatuses == {"RUNNING", "COMPLETED", "EARLY_STOPPED", "FAILED"}

\* The arms of trial i of the experiment: arm "i_0".
TrialArms(i) == {<<i, 0>>}

\* The noiseless value of the problem's test function at an arm's parameters.
TestFunction(arm) == (arm[1] * 3 + 1) % 4

\* Runtime of one trial as computed by get_total_runtime.
TrialRuntime(i) == 1 + (i % 2)

\* sum(per_trial_times) over the trials of new_trials
RECURSIVE SumRuntime(_)
SumRuntime(S) ==
    IF S = {} THEN 0
    ELSE LET x == CHOOSE y \in S : TRUE
         IN  TrialRuntime(x) + SumRuntime(S \ {x})

\* The simulator's clock: the backend simulator advances with every poll.
SimulatorTime == steps

\* Trials whose status is COMPLETED or EARLY_STOPPED.
CompletedTrials(tr) ==
    {i \in DOMAIN tr : tr[i] \in {"COMPLETED", "EARLY_STOPPED"}}

\* report_inference_value_as_trace is the problem's flag of that name; the
\* replication reads it once, at line 440, and its value is drawn there.
NoTraces ==
    [computed |-> FALSE, report_inference_value_as_trace |-> FALSE,
     inference_trace |-> <<>>, oracle_trace |-> <<>>,
     optimization_trace |-> <<>>, score_trace |-> <<>>]

\* No function has been called on its own.
NoCall == [done |-> FALSE]

NoResult ==
    [built |-> FALSE, strip_runner_before_saving |-> FALSE,
     report_inference_value_as_trace |-> FALSE,
     inference_trace |-> <<>>, oracle_trace |-> <<>>,
     optimization_trace |-> <<>>, score_trace |-> <<>>, cost_trace |-> <<>>]

\* problem.baseline_value and problem.optimal_value of the replication
BaselineValue == 0
OptimalValue == 3

\* A float quotient n / d, kept exact.
Quotient(n, d) == [num |-> n, den |-> d]

\* ------------------------------------------------------------------------
\* Pure functions of benchmark.py
\* ------------------------------------------------------------------------
\* Mutant: the score is taken as a percentage of the optimal value.
compute_score_trace_OfOptimal(optimization_trace, baseline_value, optimal_value) ==
    [i \in DOMAIN optimization_trace |->
        Quotient(100 * (optimization_trace[i] - baseline_value), optimal_value)]

\* lines 77-79
compute_score_trace(optimization_trace, baseline_value, optimal_value) ==
    [i \in DOMAIN optimization_trace |->
        Quotient(100 * (optimization_trace[i] - baseline_value),
                 optimal_value - baseline_value)]

\* Mutant: the simulator's time is added to the previous cost.
_get_cumulative_cost_AddsPrevious(previous_cost, new_trials) ==
    IF simulated
    THEN previous_cost + SimulatorTime
    ELSE previous_cost + SumRuntime(new_trials)

\* Mutant: the previous cost is dropped.
_get_cumulative_cost_NoPrevious(previous_cost, new_trials) ==
    IF simulated
    THEN SimulatorTime
    ELSE SumRuntime(new_trials)

_get_cumulative_cost(previous_cost, new_trials) ==
    IF simulated
    THEN SimulatorTime
    ELSE previous_cost + SumRuntime(new_trials)

\* A mapping from trial index to arms is the sequence of its entries
\* [key, arms] in the order items() yields them; the trial with index i of
\* an experiment is trials[i + 1].
\* lines 139-142: a new experiment, without trials and without data
NewExperiment == [trials |-> <<>>, fetched |-> {}]

\* experiment.attach_trial: a new trial with the arms given. It gets the next
\* index: the trial of the n-th pass of the loop over a new experiment has
\* index n - 1.
attach_trial(dict_of_params) ==
    [arms |-> dict_of_params, status |-> "CANDIDATE", noise_std |-> NONE]

\* lines 166-168: the trial is run by the runner of line 144, whose
\* noise_std is 0, and marked completed.
RunAndComplete(trial) == [trial EXCEPT !.status = "COMPLETED", !.noise_std = 0]

\* lines 153-157: pass n of the loop raises for an entry without arms.
RaisesValueError(dict_of_dict_of_params, n) ==
    dict_of_dict_of_params[n].arms = {}

\* line 165: experiment.trials[trial_index] raises in pass n unless the key
\* is the index of one of the n trials attached by then.
RaisesKeyError(dict_of_dict_of_params, n) ==
    /\ ~RaisesValueError(dict_of_dict_of_params, n)
    /\ dict_of_dict_of_params[n].key \notin 0..(n - 1)

\* The pass at which the loop of lines 152-168 is left by an exception, 0
\* when it runs to its end.
RaisingPass(dict_of_dict_of_params) ==
    LET Raising == {n \in DOMAIN dict_of_dict_of_params :
                        \/ RaisesValueError(dict_of_dict_of_params, n)
                        \/ RaisesKeyError(dict_of_dict_of_params, n)}
    IN  IF Raising = {} THEN 0
        ELSE CHOOSE n \in Raising : \A j \in Raising : n <= j

\* The trials after n passes without an exception: pass i attached the trial
\* of index i - 1 with the arms of entry i, and the trial a pass ran and
\* completed is the one found under the key of its entry.
OracleLoop(dict_of_dict_of_params, n) ==
    [i \in 1..n |->
        IF \E j \in i..n : dict_of_dict_of_params[j].key = i - 1
        THEN RunAndComplete(attach_trial(dict_of_dict_of_params[i].arms))
        ELSE attach_trial(dict_of_dict_of_params[i].arms)]

\* experiment.fetch_data: the data of the trials that are completed by now.
\* (ts is the value of experiment.trials, taken once.)
fetch_data(experiment) ==
    CHOOSE fetching \in
        {[trials |-> ts,
          fetched |-> {i - 1 : i \in {j \in DOMAIN ts : ts[j].status = "COMPLETED"}}] :
         ts \in {experiment.trials}} : TRUE

\* lines 139-173. The logger is set to WARNING at line 150 and set back at
\* line 170, which an exception raised in the loop does not reach. What is
\* returned is the experiment; an exception returns nothing.
get_oracle_experiment_from_params(dict_of_dict_of_params) ==
    LET original_log_level == logger_level
        raising == RaisingPass(dict_of_dict_of_params)
        experiment ==
            fetch_data([NewExperiment EXCEPT
                !.trials = OracleLoop(dict_of_dict_of_params,
                                      Len(dict_of_dict_of_params))])
    IN  IF raising # 0
        THEN [error |-> IF RaisesValueError(dict_of_dict_of_params, raising)
                        THEN "ValueError" ELSE "KeyError",
              returned |-> FALSE,
              trials |-> <<>>, fetched |-> {}, logger_level |-> "WARNING"]
        ELSE [error |-> "none", returned |-> TRUE,
              trials |-> experiment.trials,
              fetched |-> experiment.fetched,
              logger_level |-> original_log_level]

\* BestPointMixin._get_trace: one value per trial, the running best of the
\* trials' objective values. (ts is the value of experiment.trials, taken
\* once.)
BestPoint_get_trace(experiment) ==
    CHOOSE trace \in
        {[k \in DOMAIN ts |->
            Max({TestFunction(a) : a \in UNION {ts[j].arms : j \in 1..k}})] :
         ts \in {experiment.trials}} : TRUE

\* line 252: {0: {"0_0": params}}
_get_oracle_value_of_params(params) ==
    BestPoint_get_trace(
        get_oracle_experiment_from_params(<<[key |-> 0, arms |-> {params}]>>))[1]

\* lines 274-277: the keys are those of enumerate, 0, 1, 2, ...
EnumerateArms(arms_list) ==
    [i \in DOMAIN arms_list |-> [key |-> i - 1, arms |-> arms_list[i]]]

\* Mutant: one oracle experiment per recorded step.
_get_oracle_trace_from_arms_PerStep(arms_list) ==
    [k \in DOMAIN arms_list |->
        BestPoint_get_trace(
            get_oracle_experiment_from_params(<<[key |-> 0, arms |-> arms_list[k]]>>))[1]]

\* lines 260-282
_get_oracle_trace_from_arms(arms_list) ==
    BestPoint_get_trace(get_oracle_experiment_from_params(EnumerateArms(arms_list)))

\* ------------------------------------------------------------------------
\* Initial state: benchmark_replication is called with a problem and a method
\* ------------------------------------------------------------------------
\* Nothing but the replication runs.
EvaluatorIdle ==
    /\ logger_level = "INFO"
    /\ fn_args = <<>>
    /\ fn_out = NoCall
    /\ fn_prev = NoCall

\* No replication runs: its variables rest at their initial values.
ReplicationIdle ==
    /\ pc = "CONFIGURING"
    /\ is_moo = FALSE
    /\ is_mf_or_mt = FALSE
    /\ num_trials = 1
    /\ timeout_hours = NONE
    /\ simulated = FALSE
    /\ trials = <<>>
    /\ gen = "none"
    /\ steps = 0
    /\ now = 0
    /\ start = 0
    /\ sched_timeout = NONE
    /\ remaining_hours = NONE
    /\ previously_completed_trial_idcs = {}
    /\ newly_completed_trials = {}
    /\ cost = 0
    /\ cost_trace = <<>>
    /\ best_params_list = <<>>
    /\ evaluated_arms_list = <<>>
    /\ poll_calls = 0
    /\ summarize_calls = 0
    /\ best_calls = 0
    /\ best_returned = NONE
    /\ warned = FALSE
    /\ traces = NoTraces
    /\ result = NoResult
    /\ rng_state = "prior"
    /\ experiment_runner = "no experiment"

Init ==
    /\ EvaluatorIdle
    /\ pc = "CONFIGURING"
    /\ is_moo \in BOOLEAN
    /\ is_mf_or_mt \in BOOLEAN
    /\ num_trials \in 1..MaxTrials
    /\ timeout_hours \in {NONE} \cup (0..MaxTimeout)
    /\ simulated \in BOOLEAN
    /\ trials = <<>>
    /\ gen = "none"
    /\ steps = 0
    /\ now = 0
    /\ start = 0
    /\ sched_timeout = NONE
    /\ remaining_hours = NONE
    /\ previously_completed_trial_idcs = {}
    /\ newly_completed_trials = {}
    /\ cost = 0
    /\ cost_trace = <<>>
    /\ best_params_list = <<>>
    /\ evaluated_arms_list = <<>>
    /\ poll_calls = 0
    /\ summarize_calls = 0
    /\ best_calls = 0
    /\ best_returned = NONE
    /\ warned = FALSE
    /\ traces = NoTraces
    /\ result = NoResult
    /\ rng_state = "prior"
    /\ experiment_runner = "no experiment"

\* ------------------------------------------------------------------------
\* The scope of the seed, line 360
\* ------------------------------------------------------------------------
\* with_rng_seed(seed) (external collaborator): entering it seeds the random
\* number generators, leaving it puts them back in the state it found.
with_rng_seed(prior) == [entered |-> "seeded", exited |-> prior]

\* Mutant: an exception leaves the block without the scope being released.
RngOnLeavingScope_OnlyOnReturn(raised) ==
    IF raised THEN rng_state ELSE with_rng_seed("prior").exited

\* line 360: a with statement leaves its context manager on every way out of
\* the block, an exception included.
RngOnLeavingScope(raised) == with_rng_seed("prior").exited

\* ------------------------------------------------------------------------
\* benchmark_replication, lines 316-358: experiment, scheduler, empty lists
\* ------------------------------------------------------------------------
Configure ==
    /\ pc = "CONFIGURING"
    /\ pc' = "RUNNING"
    /\ trials' = <<>>
    /\ cost_trace' = <<>>
    /\ best_params_list' = <<>>
    /\ evaluated_arms_list' = <<>>
    /\ remaining_hours' = timeout_hours
    /\ previously_completed_trial_idcs' = {}
    /\ cost' = 0
    /\ experiment_runner' = "BenchmarkRunner"
    /\ UNCHANGED <<evaluator, config, gen, steps, now, start, sched_timeout,
                   newly_completed_trials, poll_calls, best_calls, best_returned,
                   warned, summarize_calls, traces, result, rng_state>>

\* lines 360-376: enter the scope of the seed, start the clock, poll once, ask
\* the scheduler for its steps
StartLoop ==
    /\ pc = "RUNNING"
    /\ gen = "none"
    /\ rng_state' = with_rng_seed(rng_state).entered
    /\ start' = now
    /\ poll_calls' = poll_calls + 1
    /\ sched_timeout' = remaining_hours
    /\ gen' = "waiting"
    /\ UNCHANGED <<pc, evaluator, config, trials, steps, now, remaining_hours,
                   previously_completed_trial_idcs, newly_completed_trials,
                   cost, cost_trace, best_params_list, evaluated_arms_list,
                   best_calls, best_returned, warned, summarize_calls, traces,
                   result, experiment_runner>>

\* ------------------------------------------------------------------------
\* The scheduler (external collaborator): run_trials_and_yield_results
\* ------------------------------------------------------------------------
\* The generator runs up to its next yield: it may start one more trial (at
\* most max_trials in all), some running trials reach a terminal status, and
\* wall-clock time passes. It does not start once its timeout has elapsed.
SchedulerAdvance ==
    /\ pc = "RUNNING"
    /\ gen = "waiting"
    /\ steps < MaxSteps
    /\ sched_timeout = NONE \/ now - start < sched_timeout
    /\ \E create \in BOOLEAN, d \in 0..MaxTick :
        LET n == Cardinality(DOMAIN trials)
            n2 == IF create /\ n < num_trials THEN n + 1 ELSE n
            started == [i \in 0..(n2 - 1) |->
                           IF i < n THEN trials[i] ELSE "RUNNING"]
            running == {i \in DOMAIN started : started[i] = "RUNNING"}
        IN  \E finished \in SUBSET running :
            \E outcome \in [finished -> TrialStatuses \ {"RUNNING"}] :
                /\ trials' = [i \in DOMAIN started |->
                                 IF i \in finished THEN outcome[i]
                                 ELSE started[i]]
                /\ now' = now + d
    /\ steps' = steps + 1
    /\ gen' = "yielded"
    /\ UNCHANGED <<pc, evaluator, config, start, sched_timeout, remaining_hours,
                   previously_completed_trial_idcs, newly_completed_trials,
                   cost, cost_trace, best_params_list, evaluated_arms_list,
                   poll_calls, best_calls, best_returned, warned,
                   summarize_calls, traces, result, rng_state,
                   experiment_runner>>

\* The generator returns: its sequence of progress steps is finite.
SchedulerStop ==
    /\ pc = "RUNNING"
    /\ gen = "waiting"
    /\ gen' = "exhausted"
    /\ UNCHANGED <<pc, evaluator, config, trials, steps, now, start, sched_timeout,
                   remaining_hours, previously_completed_trial_idcs,
                   newly_completed_trials, cost, cost_trace, best_params_list,
                   evaluated_arms_list, poll_calls, best_calls, best_returned,
                   warned, summarize_calls, traces, result, rng_state,
                   experiment_runner>>

\* ------------------------------------------------------------------------
\* method.get_best_parameters (external collaborator): the parameterizations
\* it may return, drawn from the arms observed so far. The caller unpacks
\* exactly one.
\* ------------------------------------------------------------------------
ObservedArms == UNION {TrialArms(i) : i \in CompletedTrials(trials)}

BestParametersReturns ==
    {<<>>} \cup {<<a>> : a \in ObservedArms} \cup {<<a, a>> : a \in ObservedArms}

\* ------------------------------------------------------------------------
\* benchmark_replication, lines 377-425: the body of the loop for one
\* progress step; ret is what method.get_best_parameters returns if asked.
\* ------------------------------------------------------------------------
\* Mutant: the trials seen before are not taken out.
NewlyCompleted_All(currently, previously) == currently

\* lines 386-388
NewlyCompleted(currently, previously) == currently \ previously

\* Mutant: the set of trials seen so far is not updated.
NextPreviouslyCompleted_NotUpdated(currently, previously) == previously

\* line 389
NextPreviouslyCompleted(currently, previously) == currently

\* Mutant: every progress step is recorded.
RecordsStep_Always(newly) == TRUE

\* Mutant: a step on which several trials completed is not recorded.
RecordsStep_OnlyOne(newly) == Cardinality(newly) = 1

\* line 391: if len(newly_completed_trials) > 0
RecordsStep(newly) == Cardinality(newly) > 0

\* Mutant: the cost is appended on every progress step.
NextCostTrace_EveryStep(record, new_cost) == Append(cost_trace, new_cost)

\* lines 392-397: cost_trace.append(cost)
NextCostTrace(record, new_cost) ==
    IF record THEN Append(cost_trace, new_cost) ELSE cost_trace

\* Mutant: the arms are appended on every progress step.
NextEvaluatedArmsList_Always(record, newly) ==
    Append(evaluated_arms_list, UNION {TrialArms(i) : i \in newly})

\* lines 401-406: evaluated_arms_list.append(params)
NextEvaluatedArmsList(record, newly) ==
    IF record
    THEN Append(evaluated_arms_list, UNION {TrialArms(i) : i \in newly})
    ELSE evaluated_arms_list

\* Mutant: only multi-objective problems are left out.
InferenceSupported_OnlyMoo == ~is_moo

\* Mutant: "and" for "or".
InferenceSupported_And == ~(is_moo /\ is_mf_or_mt)

\* line 412: if not (problem.is_moo or is_mf_or_mt)
InferenceSupported == ~(is_moo \/ is_mf_or_mt)

\* Mutant: a recommendation equal to the last one recorded is not appended.
NextBestParamsList_Dedup(ask, ret) ==
    IF /\ ask
       /\ Len(ret) = 1
       /\ (best_params_list = <<>>
           \/ best_params_list[Len(best_params_list)] # ret[1])
    THEN Append(best_params_list, ret[1])
    ELSE best_params_list

\* Mutant: the first parameterization is taken when several are returned.
NextBestParamsList_First(ask, ret) ==
    IF ask /\ Len(ret) >= 1
    THEN Append(best_params_list, ret[1])
    ELSE best_params_list

\* lines 413-418: (best_params,) = ...; best_params_list.append(best_params)
NextBestParamsList(ask, ret) ==
    IF ask /\ Len(ret) = 1
    THEN Append(best_params_list, ret[1])
    ELSE best_params_list

\* Mutant: the budget is refreshed to the full timeout on every step.
RemainingHours_Refreshed == timeout_hours

\* lines 421-422: remaining_hours = timeout_hours - elapsed_hours
RemainingHours == timeout_hours - (now - start)

\* Mutant: the loop goes on when the budget is exactly used up.
TimedOut_Strict(remaining) == remaining < 0

\* line 423: if remaining_hours <= 0.0
TimedOut(remaining) == remaining <= 0

\* Mutant: the timeout is checked before the bookkeeping of the step, which
\* is then skipped when the loop is left.
LoopBody_TimeoutFirst(ret) ==
    /\ pc = "RUNNING"
    /\ gen = "yielded"
    /\ LET currently_completed_trials == CompletedTrials(trials)
           newly == NewlyCompleted(currently_completed_trials,
                                   previously_completed_trial_idcs)
           remaining == IF timeout_hours # NONE THEN RemainingHours
                        ELSE remaining_hours
           timed_out == timeout_hours # NONE /\ TimedOut(remaining)
           record == RecordsStep(newly) /\ ~timed_out
           ask == record /\ InferenceSupported
           unpack_fails == ask /\ Len(ret) # 1
           new_cost == IF record THEN _get_cumulative_cost(cost, newly) ELSE cost
       IN  /\ previously_completed_trial_idcs' = currently_completed_trials
           /\ newly_completed_trials' = newly
           /\ cost' = new_cost
           /\ cost_trace' = NextCostTrace(record, new_cost)
           /\ evaluated_arms_list' = NextEvaluatedArmsList(record, newly)
           /\ best_calls' = IF ask THEN best_calls + 1 ELSE best_calls
           /\ best_returned' = IF ask THEN Len(ret) ELSE NONE
           /\ best_params_list' = NextBestParamsList(ask, ret)
           /\ IF unpack_fails
              THEN /\ pc' = "FAILED"
                   /\ gen' = "closed"
                   /\ rng_state' = RngOnLeavingScope(TRUE)
                   /\ UNCHANGED <<remaining_hours, warned>>
              ELSE /\ remaining_hours' = remaining
                   /\ warned' = timed_out
                   /\ pc' = IF timed_out THEN "TIMED_OUT" ELSE "RUNNING"
                   /\ gen' = IF timed_out THEN "closed" ELSE "waiting"
                   /\ UNCHANGED rng_state
    /\ UNCHANGED <<evaluator, config, trials, steps, now, start, sched_timeout,
                   poll_calls, summarize_calls, traces, result, experiment_runner>>

LoopBody(ret) ==
    /\ pc = "RUNNING"
    /\ gen = "yielded"
    /\ LET currently_completed_trials == CompletedTrials(trials)
           newly == NewlyCompleted(currently_completed_trials,
                                   previously_completed_trial_idcs)
           record == RecordsStep(newly)
           ask == record /\ InferenceSupported
           unpack_fails == ask /\ Len(ret) # 1
           new_cost == IF record THEN _get_cumulative_cost(cost, newly) ELSE cost
           remaining == IF timeout_hours # NONE THEN RemainingHours
                        ELSE remaining_hours
           timed_out == timeout_hours # NONE /\ TimedOut(remaining)
       IN  /\ previously_completed_trial_idcs' =
                 NextPreviouslyCompleted(currently_completed_trials,
                                         previously_completed_trial_idcs)
           /\ newly_completed_trials' = newly
           /\ cost' = new_cost
           /\ cost_trace' = NextCostTrace(record, new_cost)
           /\ evaluated_arms_list' = NextEvaluatedArmsList(record, newly)
           /\ best_calls' = IF ask THEN best_calls + 1 ELSE best_calls
           /\ best_returned' = IF ask THEN Len(ret) ELSE NONE
           /\ best_params_list' = NextBestParamsList(ask, ret)
           /\ IF unpack_fails
              THEN /\ pc' = "FAILED"
                   /\ gen' = "closed"
                   /\ rng_state' = RngOnLeavingScope(TRUE)
                   /\ UNCHANGED <<remaining_hours, warned>>
              ELSE /\ remaining_hours' = remaining
                   /\ warned' = timed_out
                   /\ pc' = IF timed_out THEN "TIMED_OUT" ELSE "RUNNING"
                   /\ gen' = IF timed_out THEN "closed" ELSE "waiting"
                   /\ UNCHANGED rng_state
    /\ UNCHANGED <<evaluator, config, trials, steps, now, start, sched_timeout,
                   poll_calls, summarize_calls, traces, result, experiment_runner>>

\* Mutant: the loop asks the exhausted generator again instead of ending.
LoopExhausted_Again ==
    /\ pc = "RUNNING"
    /\ gen = "exhausted"
    /\ gen' = "waiting"
    /\ UNCHANGED <<pc, evaluator, config, trials, steps, now, start, sched_timeout,
                   remaining_hours, previously_completed_trial_idcs,
                   newly_completed_trials, cost, cost_trace, best_params_list,
                   evaluated_arms_list, poll_calls, best_calls, best_returned,
                   warned, summarize_calls, traces, result, rng_state,
                   experiment_runner>>

\* line 373: the for loop ends when the generator is exhausted
LoopExhausted ==
    /\ pc = "RUNNING"
    /\ gen = "exhausted"
    /\ pc' = "EXHAUSTED"
    /\ UNCHANGED <<evaluator, config, loop, summarize_calls, traces, result,
                   rng_state, experiment_runner>>

\* Mutant: the final summary is only made when the loop was not left early.
Summarize_OnlyOnExhaustion ==
    /\ pc \in {"TIMED_OUT", "EXHAUSTED"}
    /\ pc' = "FINALIZING"
    /\ summarize_calls' = IF pc = "EXHAUSTED" THEN summarize_calls + 1
                          ELSE summarize_calls
    /\ rng_state' = RngOnLeavingScope(FALSE)
    /\ UNCHANGED <<evaluator, config, loop, traces, result, experiment_runner>>

\* line 427: scheduler.summarize_final_result(), the last statement in the
\* scope of the seed
Summarize ==
    /\ pc \in {"TIMED_OUT", "EXHAUSTED"}
    /\ pc' = "FINALIZING"
    /\ summarize_calls' = summarize_calls + 1
    /\ rng_state' = RngOnLeavingScope(FALSE)
    /\ UNCHANGED <<evaluator, config, loop, traces, result, experiment_runner>>

\* Mutant: the flag is read the wrong way round.
SelectOptimizationTrace_Swapped(report_inference_value_as_trace, inference_trace, oracle_trace) ==
    IF report_inference_value_as_trace THEN oracle_trace ELSE inference_trace

\* lines 439-441
SelectOptimizationTrace(report_inference_value_as_trace, inference_trace, oracle_trace) ==
    IF report_inference_value_as_trace THEN inference_trace ELSE oracle_trace

\* lines 429-447: the inference trace, the oracle trace, the optimization
\* trace and the score trace
\* (Each trace is bound to its value where it is computed, as a local of the
\* function is.)
ComputeTraces ==
    /\ pc = "FINALIZING"
    /\ ~traces.computed
    /\ \E oracle \in {get_oracle_experiment_from_params(EnumerateArms(evaluated_arms_list))} :
        IF oracle.error # "none"
        THEN /\ pc' = "FAILED"
             /\ logger_level' = oracle.logger_level
             /\ UNCHANGED traces
        ELSE \E inference_trace \in
                    {[k \in 1..Len(best_params_list) |->
                        _get_oracle_value_of_params(best_params_list[k])]},
                oracle_trace \in {_get_oracle_trace_from_arms(evaluated_arms_list)},
                report_inference_value_as_trace \in BOOLEAN :
             \E optimization_trace \in
                    {SelectOptimizationTrace(report_inference_value_as_trace,
                                             inference_trace, oracle_trace)} :
                /\ pc' = pc
                /\ logger_level' = oracle.logger_level
                /\ traces' =
                      [computed |-> TRUE,
                       report_inference_value_as_trace |->
                           report_inference_value_as_trace,
                       inference_trace |-> inference_trace,
                       oracle_trace |-> oracle_trace,
                       optimization_trace |-> optimization_trace,
                       score_trace |->
                           compute_score_trace(optimization_trace,
                                               BaselineValue,
                                               OptimalValue)]
    /\ UNCHANGED <<fn_args, fn_out, fn_prev, config, loop, summarize_calls, result,
                   rng_state, experiment_runner>>

\* Mutant: the flag is read the wrong way round.
RunnerAfterStrip_Swapped(strip_runner_before_saving) ==
    IF strip_runner_before_saving THEN experiment_runner ELSE "None"

\* lines 450-453: if strip_runner_before_saving: experiment.runner = None
RunnerAfterStrip(strip_runner_before_saving) ==
    IF strip_runner_before_saving THEN "None" ELSE experiment_runner

\* lines 449-466: the runner is stripped if asked for, then the
\* BenchmarkResult is built; its experiment is the scheduler's.
BuildResult ==
    /\ pc = "FINALIZING"
    /\ traces.computed
    /\ pc' = "DONE"
    /\ \E strip_runner_before_saving \in BOOLEAN :
        /\ experiment_runner' = RunnerAfterStrip(strip_runner_before_saving)
        /\ result' = [built |-> TRUE,
                      strip_runner_before_saving |-> strip_runner_before_saving,
                      report_inference_value_as_trace |->
                          traces.report_inference_value_as_trace,
                      inference_trace |-> traces.inference_trace,
                      oracle_trace |-> traces.oracle_trace,
                      optimization_trace |-> traces.optimization_trace,
                      score_trace |-> traces.score_trace,
                      cost_trace |-> cost_trace]
    /\ UNCHANGED <<evaluator, config, loop, summarize_calls, traces, rng_state>>

\* One iteration of the loop, whatever the method returns when asked.
LoopStep == \E ret \in BestParametersReturns : LoopBody(ret)

Next ==
    \/ Configure
    \/ StartLoop
    \/ SchedulerAdvance
    \/ SchedulerStop
    \/ LoopStep
    \/ LoopExhausted
    \/ Summarize
    \/ ComputeTraces
    \/ BuildResult

Spec == Init /\ [][Next]_vars

\* A replication is one sequential computation: it keeps running.
FairSpec == Spec /\ WF_vars(Next)

\* ------------------------------------------------------------------------
\* compute_score_trace called on its own, lines 54-79
\* ------------------------------------------------------------------------
SeqsUpTo(S, n) == UNION {[1..k -> S] : k \in 0..n}

MetricValues == 0..MaxValue

\* Any trace, any baseline and any optimum, the two equal or in either order.
ScoreInit ==
    /\ ReplicationIdle
    /\ logger_level = "INFO"
    /\ \E t \in SeqsUpTo(MetricValues, MaxLen), b \in MetricValues, o \in MetricValues :
          fn_args = [optimization_trace |-> t, baseline_value |-> b, optimal_value |-> o]
    /\ fn_out = NoCall
    /\ fn_prev = NoCall

\* The arithmetic of line 77-79 builds a new array: the argument is left as
\* it was.
ComputeScore ==
    /\ ~fn_out.done
    /\ fn_out' = [done |-> TRUE,
                  value |-> compute_score_trace(fn_args.optimization_trace,
                                                fn_args.baseline_value,
                                                fn_args.optimal_value)]
    /\ fn_prev' = fn_out
    /\ UNCHANGED <<replication, logger_level, fn_args>>

ScoreNext == ComputeScore

ScoreSpec == ScoreInit /\ [][ScoreNext]_vars

\* ------------------------------------------------------------------------
\* get_oracle_experiment_from_params called on its own, twice with the same
\* mapping, lines 109-173
\* ------------------------------------------------------------------------
LoggerLevels == {"DEBUG", "INFO", "WARNING"}

\* Arm names; an arm's parameterization goes with its name.
OracleArms == {<<0, 0>>, <<1, 0>>}

OracleEntries == [key : 0..MaxKey, arms : SUBSET OracleArms]

\* Mappings of up to MaxEntries entries: a dict has no key twice.
OracleMappings ==
    {m \in SeqsUpTo(OracleEntries, MaxEntries) :
        \A i, j \in DOMAIN m : i # j => m[i].key # m[j].key}

OracleInit ==
    /\ ReplicationIdle
    /\ logger_level \in LoggerLevels
    /\ \E m \in OracleMappings : fn_args = [dict_of_dict_of_params |-> m]
    /\ fn_out = NoCall
    /\ fn_prev = NoCall

\* A call; the caller also takes the trace of the experiment it got.
CallOracle ==
    /\ ~fn_prev.done
    /\ LET out == get_oracle_experiment_from_params(fn_args.dict_of_dict_of_params)
       IN  /\ fn_out' = [done |-> TRUE,
                         entry_level |-> logger_level,
                         error |-> out.error,
                         returned |-> out.returned,
                         trials |-> out.trials,
                         fetched |-> out.fetched,
                         trace |-> BestPoint_get_trace(out)]
           /\ logger_level' = out.logger_level
    /\ fn_prev' = fn_out
    /\ UNCHANGED <<replication, fn_args>>

OracleNext == CallOracle

OracleSpec == OracleInit /\ [][OracleNext]_vars

\* ------------------------------------------------------------------------
\* The parameterizations get_oracle_experiment_from_params attaches for one
\* entry of its mapping, lines 158-164
\* ------------------------------------------------------------------------
\* Mutant: the arm's own value wins.
DictMerge_FirstWins(parameters, target_fidelity_and_task) ==
    [k \in DOMAIN parameters \cup DOMAIN target_fidelity_and_task |->
        IF k \in DOMAIN parameters THEN parameters[k] ELSE target_fidelity_and_task[k]]

\* line 160: {**parameters, **problem.target_fidelity_and_task}
DictMerge(parameters, target_fidelity_and_task) ==
    [k \in DOMAIN parameters \cup DOMAIN target_fidelity_and_task |->
        IF k \in DOMAIN target_fidelity_and_task
        THEN target_fidelity_and_task[k] ELSE parameters[k]]

\* lines 159-163: one parameterization per arm of dict_of_params, under the
\* arm's name (parameterizations and arm_names run over the same dict).
AttachedParameterizations(dict_of_params, target_fidelity_and_task) ==
    [name \in DOMAIN dict_of_params |->
        DictMerge(dict_of_params[name], target_fidelity_and_task)]

ParameterNames == {"x0", "x1", "fidelity"}

ArmNames == {"0_0", "0_1"}

\* Dicts from some parameter names to values.
Parameterizations ==
    UNION {[names -> 0..MaxParam] : names \in SUBSET ParameterNames}

MergeInit ==
    /\ ReplicationIdle
    /\ logger_level = "INFO"
    /\ \E names \in (SUBSET ArmNames) \ {{}} :
       \E d \in [names -> Parameterizations], t \in Parameterizations :
          fn_args = [dict_of_params |-> d, target_fidelity_and_task |-> t]
    /\ fn_out = NoCall
    /\ fn_prev = NoCall

AttachParameterizations ==
    /\ ~fn_out.done
    /\ fn_out' = [done |-> TRUE,
                  parameterizations |->
                      AttachedParameterizations(fn_args.dict_of_params,
                                                fn_args.target_fidelity_and_task)]
    /\ fn_prev' = fn_out
    /\ UNCHANGED <<replication, logger_level, fn_args>>

MergeNext == AttachParameterizations

MergeSpec == MergeInit /\ [][MergeNext]_vars

\* ------------------------------------------------------------------------
\* get_benchmark_scheduler_options called on its own, lines 176-209
\* ------------------------------------------------------------------------
\* Mutant: the status quo does not count.
TrialTypeFor_BatchSizeOnly(batch_size, include_sq) ==
    IF batch_size = NONE \/ batch_size > 1 THEN "BATCH_TRIAL" ELSE "TRIAL"

\* lines 191-194
TrialTypeFor(batch_size, include_sq) ==
    IF batch_size = NONE \/ batch_size > 1 \/ include_sq THEN "BATCH_TRIAL" ELSE "TRIAL"

\* lines 195-209; status_quo_weight is 1.0 or 0.0
get_benchmark_scheduler_options(method, include_sq, logging_level) ==
    [max_pending_trials |-> method.max_pending_trials,
     init_seconds_between_polls |-> 0,
     min_seconds_before_poll |-> 0,
     trial_type |-> TrialTypeFor(method.batch_size, include_sq),
     batch_size |-> method.batch_size,
     run_trials_in_batches |-> method.run_trials_in_batches,
     status_quo_weight |-> IF include_sq THEN 1 ELSE 0,
     logging_level |-> logging_level]

\* The attributes of a method that the options are made from.
BenchmarkMethods ==
    [batch_size : {NONE} \cup (1..MaxBatch),
     max_pending_trials : 1..MaxPending,
     run_trials_in_batches : BOOLEAN]

OptionsInit ==
    /\ ReplicationIdle
    /\ logger_level = "INFO"
    /\ \E method \in BenchmarkMethods, include_sq \in BOOLEAN, logging_level \in LoggerLevels :
          fn_args = [method |-> method, include_sq |-> include_sq,
                     logging_level |-> logging_level]
    /\ fn_out = NoCall
    /\ fn_prev = NoCall

GetOptions ==
    /\ ~fn_out.done
    /\ fn_out' = [done |-> TRUE,
                  options |-> get_benchmark_scheduler_options(
                                  fn_args.method, fn_args.include_sq,
                                  fn_args.logging_level)]
    /\ fn_prev' = fn_out
    /\ UNCHANGED <<replication, logger_level, fn_args>>

OptionsNext == GetOptions

OptionsSpec == OptionsInit /\ [][OptionsNext]_vars

\* ------------------------------------------------------------------------
\* The aggregation drivers, lines 528-567
\* ------------------------------------------------------------------------
RECURSIVE Flatten(_)
Flatten(seqs) == IF seqs = <<>> THEN <<>> ELSE Head(seqs) \o Flatten(Tail(seqs))

\* Mutant: method-major order.
product_MethodMajor(problems, methods) ==
    Flatten([j \in 1..Len(methods) |->
                [i \in 1..Len(problems) |-> <<problems[i], methods[j]>>]])

\* itertools.product(problems, methods), line 566: nested loops, the last
\* iterable advancing fastest
product(problems, methods) ==
    Flatten([i \in 1..Len(problems) |->
                [j \in 1..Len(methods) |-> <<problems[i], methods[j]>>]])

\* `for seed in seeds`, line 541, asks seeds for an iterator: a list gives a
\* new one at its first element, an iterator gives itself, wherever it stands.
iter(seeds_kind, pos) == IF seeds_kind = "list" THEN 0 ELSE pos

\* Mutant: the scheduler is handed the method's own generation strategy.
SchedulerGenerationStrategy_NoClone(method, n) == <<"method.generation_strategy", method>>

\* line 340: method.generation_strategy.clone_reset() is a new object
SchedulerGenerationStrategy(method, n) == <<"generation_strategy", n>>

\* The objects of the n-th replication, lines 326-342, and what its result
\* says of them (experiment=scheduler.experiment, lines 455-466).
benchmark_replication(problem, method, seed, n) ==
    [problem |-> problem, method |-> method, seed |-> seed,
     runner |-> <<"runner", n>>,
     experiment |-> <<"experiment", n>>,
     generation_strategy |-> SchedulerGenerationStrategy(method, n),
     scheduler |-> <<"scheduler", n>>]

\* The objects a replication writes to: the scheduler, which runs the
\* experiment with the runner and generates from its generation strategy.
Written(r) == {r.runner, r.experiment, r.generation_strategy, r.scheduler}

\* lines 534-544
benchmark_one_method_problem(problem, method, results) ==
    [problem |-> problem, method |-> method, results |-> results]

\* Seeds are 0 or 1, in any order, repeated or not.
AggSeeds == SeqsUpTo(0..1, MaxSeeds)

AggInit ==
    /\ ReplicationIdle
    /\ logger_level = "INFO"
    /\ \E np \in 0..MaxProblems, nm \in 0..MaxMethods, seeds \in AggSeeds, seeds_kind \in {"list", "iterator"} :
          fn_args = [problems |-> [i \in 1..np |-> i],
                     methods |-> [j \in 1..nm |-> j],
                     seeds |-> seeds, seeds_kind |-> seeds_kind]
    /\ fn_out = [done |-> FALSE, raised |-> FALSE, active |-> FALSE, k |-> 0,
                 pos |-> 0, results |-> <<>>, aggregated |-> <<>>,
                 next_id |-> 1, written |-> {}]
    /\ fn_prev = NoCall

\* lines 560-566: the next pair of the product; line 541: iter(seeds)
StartPair ==
    /\ ~fn_out.done
    /\ ~fn_out.active
    /\ fn_out.k < Len(product(fn_args.problems, fn_args.methods))
    /\ fn_out' = [fn_out EXCEPT !.active = TRUE,
                                !.pos = iter(fn_args.seeds_kind, fn_out.pos),
                                !.results = <<>>]
    /\ UNCHANGED <<replication, logger_level, fn_args, fn_prev>>

\* lines 535-541: one replication on the next seed; it returns a result or
\* raises, and what it raises is not caught.
RunReplication ==
    /\ ~fn_out.done
    /\ fn_out.active
    /\ fn_out.pos < Len(fn_args.seeds)
    /\ \E outcome \in {"returned", "raised"} :
         LET pair == product(fn_args.problems, fn_args.methods)[fn_out.k + 1]
             r == benchmark_replication(pair[1], pair[2],
                                        fn_args.seeds[fn_out.pos + 1], fn_out.next_id)
         IN  fn_out' = [fn_out EXCEPT
                          !.pos = @ + 1,
                          !.next_id = @ + 1,
                          !.written = @ \cup Written(r),
                          !.results = IF outcome = "returned" THEN Append(@, r) ELSE @,
                          !.active = outcome = "returned",
                          !.raised = outcome = "raised",
                          !.done = outcome = "raised"]
    /\ UNCHANGED <<replication, logger_level, fn_args, fn_prev>>

\* lines 534-544: the seeds are exhausted, the results are merged
AggregatePair ==
    /\ ~fn_out.done
    /\ fn_out.active
    /\ fn_out.pos >= Len(fn_args.seeds)
    /\ LET pair == product(fn_args.problems, fn_args.methods)[fn_out.k + 1]
       IN  fn_out' = [fn_out EXCEPT
                        !.aggregated = Append(@, benchmark_one_method_problem(
                                                    pair[1], pair[2], fn_out.results)),
                        !.results = <<>>,
                        !.active = FALSE,
                        !.k = @ + 1]
    /\ UNCHANGED <<replication, logger_level, fn_args, fn_prev>>

\* lines 559-567: the list is returned
ReturnAggregated ==
    /\ ~fn_out.done
    /\ ~fn_out.active
    /\ fn_out.k = Len(product(fn_args.problems, fn_args.methods))
    /\ fn_out' = [fn_out EXCEPT !.done = TRUE]
    /\ UNCHANGED <<replication, logger_level, fn_args, fn_prev>>

AggNext == StartPair \/ RunReplication \/ AggregatePair \/ ReturnAggregated

AggSpec == AggInit /\ [][AggNext]_vars

\* ------------------------------------------------------------------------
\* PredictedEffectsPlot.compute, predicted_effects.py lines 46-114
\* ------------------------------------------------------------------------
NoExperiment == "PredictedEffectsPlot requires an Experiment."
NoGenerationStrategy == "PredictedEffectsPlot requires a GenerationStrategy."
NoTrials == "PredictedEffectsPlot cannot be used because it has no trials."

\* checked_cast (external collaborator): the value if it is of the type, the
\* given exception if not; None is of no type.
checked_cast(typ, val) == val.kind = typ

\* Mutant: the status of the trials is not looked at.
trial_indices_All(experiment) == 0..(Len(experiment.trials) - 1)

\* lines 63-67: the indices of the trials that are not ABANDONED
trial_indices(experiment) ==
    {i \in 0..(Len(experiment.trials) - 1) : experiment.trials[i + 1] # "ABANDONED"}

UserInputError(message) ==
    [raised |-> message, card |-> FALSE, fit_calls |-> 0, candidate_trial |-> NONE]

\* Mutant: the generation strategy is checked before the experiment.
compute_StrategyFirst(experiment, generation_strategy) ==
    IF ~checked_cast("GenerationStrategy", generation_strategy)
    THEN UserInputError(NoGenerationStrategy)
    ELSE IF experiment.is_none
    THEN UserInputError(NoExperiment)
    ELSE IF trial_indices(experiment) = {}
    THEN UserInputError(NoTrials)
    ELSE [raised |-> "none", card |-> TRUE,
          fit_calls |-> IF generation_strategy.model = "None" THEN 1 ELSE 0,
          candidate_trial |-> Max(trial_indices(experiment))]

\* lines 51-114; what follows the fit of the model (the data frame, the
\* figure, the level of the card) is taken to succeed.
compute(experiment, generation_strategy) ==
    IF experiment.is_none
    THEN UserInputError(NoExperiment)
    ELSE IF ~checked_cast("GenerationStrategy", generation_strategy)
    THEN UserInputError(NoGenerationStrategy)
    ELSE IF trial_indices(experiment) = {}
    THEN UserInputError(NoTrials)
    ELSE [raised |-> "none", card |-> TRUE,
          fit_calls |-> IF generation_strategy.model = "None" THEN 1 ELSE 0,
          candidate_trial |-> Max(trial_indices(experiment))]

\* None, or an experiment with up to MaxPlotTrials trials.
PlotExperiments ==
    {[is_none |-> TRUE, trials |-> <<>>]}
        \cup [is_none : {FALSE},
              trials : SeqsUpTo({"ABANDONED", "RUNNING", "COMPLETED"}, MaxPlotTrials)]

\* None, a GenerationStrategy, or another GenerationStrategyInterface.
PlotGenerationStrategies ==
    {[kind |-> "None", model |-> "None"]}
        \cup [kind : {"GenerationStrategy", "GenerationStrategyInterface"},
              model : {"None", "fitted"}]

PlotInit ==
    /\ ReplicationIdle
    /\ logger_level = "INFO"
    /\ \E experiment \in PlotExperiments, generation_strategy \in PlotGenerationStrategies :
          fn_args = [experiment |-> experiment, generation_strategy |-> generation_strategy]
    /\ fn_out = NoCall
    /\ fn_prev = NoCall

Compute ==
    /\ ~fn_out.done
    /\ fn_out' = [done |-> TRUE,
                  out |-> compute(fn_args.experiment, fn_args.generation_strategy)]
    /\ fn_prev' = fn_out
    /\ UNCHANGED <<replication, logger_level, fn_args>>

PlotNext == Compute

PlotSpec == PlotInit /\ [][PlotNext]_vars

\* ------------------------------------------------------------------------
\* get_constraint_violated_probabilities, utils.py lines 24-99 (the same
\* function is in predicted_effects.py, lines 117-192)
\* ------------------------------------------------------------------------
RECURSIVE Product(_)
Product(s) == IF s = <<>> THEN 1 ELSE Head(s) * Product(Tail(s))

\* Mutant: only a list whose constraints are all relative is refused.
AnyRelative_All(outcome_constraints) ==
    \A i \in 1..Len(outcome_constraints) : outcome_constraints[i].relative

\* line 43: any(constraint.relative for constraint in outcome_constraints)
AnyRelative(outcome_constraints) ==
    \E i \in 1..Len(outcome_constraints) : outcome_constraints[i].relative

\* lines 63-90: feasibility_probabilities[constraint.metric.name] is assigned
\* for each constraint in turn, so the last constraint on a metric stays;
\* feasible[i] is what compute_log_prob_feas_from_bounds(...).exp() gives for
\* constraint i, one probability per prediction.
FeasibilityByMetric(outcome_constraints, feasible) ==
    [name \in {outcome_constraints[i].metric : i \in 1..Len(outcome_constraints)} |->
        feasible[Max({i \in 1..Len(outcome_constraints) :
                          outcome_constraints[i].metric = name})]]

\* lines 92-94: np.prod over the values of the dict, per prediction
AnyFeasible(by_metric, n) ==
    [k \in 1..n |->
        LET names == DOMAIN by_metric
            ordered == CHOOSE s \in [1..Cardinality(names) -> names] :
                          \A a, b \in 1..Cardinality(names) : a # b => s[a] # s[b]
        IN  Product([j \in 1..Cardinality(names) |-> by_metric[ordered[j]][k]])]

\* lines 41-99
get_constraint_violated_probabilities(n_predictions, outcome_constraints, feasible) ==
    IF Len(outcome_constraints) = 0
    THEN [raised |-> "none",
          returned |-> [name \in {"any_constraint_violated"} |->
                           [k \in 1..n_predictions |-> 0]]]
    ELSE IF AnyRelative(outcome_constraints)
    THEN [raised |-> "UserInputError", returned |-> <<>>]
    ELSE LET by_metric == FeasibilityByMetric(outcome_constraints, feasible)
             all_of_them == [name \in DOMAIN by_metric \cup {"any_constraint_violated"} |->
                               IF name = "any_constraint_violated"
                               THEN AnyFeasible(by_metric, n_predictions)
                               ELSE by_metric[name]]
         IN  [raised |-> "none",
              returned |-> [name \in DOMAIN all_of_them |->
                               [k \in 1..n_predictions |-> 1 - all_of_them[name][k]]]]

\* A constraint: whether it is relative, its metric and its comparison.
OutcomeConstraints ==
    [relative : BOOLEAN, metric : {"m1", "m2"}, op : {"GEQ", "LEQ"}]

ConstraintsInit ==
    /\ ReplicationIdle
    /\ logger_level = "INFO"
    /\ \E n_predictions \in 0..MaxPredictions, outcome_constraints \in SeqsUpTo(OutcomeConstraints, MaxConstraints) :
          fn_args = [n_predictions |-> n_predictions,
                     outcome_constraints |-> outcome_constraints]
    /\ fn_out = NoCall
    /\ fn_prev = NoCall

\* One call; the feasibility probabilities (external collaborator) are 0 or 1.
GetConstraintViolatedProbabilities ==
    /\ ~fn_out.done
    /\ \E feasible \in [1..Len(fn_args.outcome_constraints) -> [1..fn_args.n_predictions -> {0, 1}]] :
          fn_out' = [done |-> TRUE,
                     feasible |-> feasible,
                     out |-> get_constraint_violated_probabilities(
                                 fn_args.n_predictions, fn_args.outcome_constraints,
                                 feasible)]
    /\ fn_prev' = fn_out
    /\ UNCHANGED <<replication, logger_level, fn_args>>

ConstraintsNext == GetConstraintViolatedProbabilities

ConstraintsSpec == ConstraintsInit /\ [][ConstraintsNext]_vars

\* ------------------------------------------------------------------------
\* select_metric, utils.py lines 144-161
\* ------------------------------------------------------------------------
\* Mutant: the first metric of a multi-objective is taken.
select_metric_FirstOfMany(experiment) ==
    IF experiment.optimization_config.is_none
    THEN [raised |-> "ValueError", returned |-> ""]
    ELSE LET objective == experiment.optimization_config.objective
         IN  IF objective.kind = "ScalarizedObjective"
             THEN [raised |-> "UnsupportedError", returned |-> ""]
             ELSE [raised |-> "none", returned |-> objective.metrics[1]]

\* lines 146-161
select_metric(experiment) ==
    IF experiment.optimization_config.is_none
    THEN [raised |-> "ValueError", returned |-> ""]
    ELSE LET objective == experiment.optimization_config.objective
         IN  IF objective.kind = "MultiObjective"
             THEN [raised |-> "UnsupportedError", returned |-> ""]
             ELSE IF objective.kind = "ScalarizedObjective"
             THEN [raised |-> "UnsupportedError", returned |-> ""]
             ELSE [raised |-> "none", returned |-> objective.metrics[1]]

MetricNames == {"m1", "m2", "m3"}

\* An Objective has one metric, a MultiObjective and a ScalarizedObjective
\* have one or more.
Objectives ==
    [kind : {"Objective"}, metrics : [1..1 -> MetricNames], minimize : BOOLEAN]
        \cup [kind : {"MultiObjective", "ScalarizedObjective"},
              metrics : SeqsUpTo(MetricNames, MaxObjectiveMetrics) \ {<<>>},
              minimize : BOOLEAN]

\* experiment.optimization_config: None or a config with an objective.
OptimizationConfigs ==
    {[is_none |-> TRUE, objective |-> <<>>]}
        \cup [is_none : {FALSE}, objective : Objectives]

SelectInit ==
    /\ ReplicationIdle
    /\ logger_level = "INFO"
    /\ \E optimization_config \in OptimizationConfigs :
          fn_args = [experiment |-> [optimization_config |-> optimization_config]]
    /\ fn_out = NoCall
    /\ fn_prev = NoCall

SelectMetric ==
    /\ ~fn_out.done
    /\ fn_out' = [done |-> TRUE, out |-> select_metric(fn_args.experiment)]
    /\ fn_prev' = fn_out
    /\ UNCHANGED <<replication, logger_level, fn_args>>

SelectNext == SelectMetric

SelectSpec == SelectInit /\ [][SelectNext]_vars

\* ------------------------------------------------------------------------
\* compute_baseline_value_from_sobol, lines 469-525
\* ------------------------------------------------------------------------
\* A mapping is the set of its items; Python's None is told apart by is_none.
\* line 496: target_fidelity_and_task = {} if target_fidelity_and_task is None
\* else {}
TargetFidelityAndTask(target_fidelity_and_task) ==
    IF target_fidelity_and_task.is_none THEN {} ELSE {}

\* lines 500-502: multi-objective problems are higher-is-better
higher_is_better(optimization_config) ==
    optimization_config.objective = "MultiObjective" \/ ~optimization_config.minimize

\* lines 503-513: the dummy problem; "inf" and "-inf" are float("inf") and
\* its negative
dummy_problem(optimization_config, target_fidelity_and_task) ==
    [name |-> "dummy",
     optimization_config |-> optimization_config,
     num_trials |-> 5,
     optimal_value |-> IF higher_is_better(optimization_config) THEN "inf" ELSE "-inf",
     baseline_value |-> IF higher_is_better(optimization_config) THEN "-inf" ELSE "inf",
     target_fidelity_and_task |-> TargetFidelityAndTask(target_fidelity_and_task)]

\* What a caller may hand over as target_fidelity_and_task: None, or a
\* mapping with a fidelity, a task, both or neither.
TargetMappings ==
    {[is_none |-> TRUE, items |-> {}]} \cup
    {[is_none |-> FALSE, items |-> items] :
        items \in SUBSET {<<"fidelity", 1>>, <<"task_id", 0>>}}

BaselineOptimizationConfigs ==
    [objective : {"Objective", "MultiObjective"}, minimize : BOOLEAN]

BaselineInit ==
    /\ ReplicationIdle
    /\ logger_level = "INFO"
    /\ \E optimization_config \in BaselineOptimizationConfigs, target_fidelity_and_task \in TargetMappings, n_repeats \in 1..MaxRepeats :
          fn_args = [optimization_config |-> optimization_config,
                     target_fidelity_and_task |-> target_fidelity_and_task,
                     n_repeats |-> n_repeats]
    /\ fn_out = [done |-> FALSE, started |-> FALSE, i |-> 0, calls |-> <<>>]
    /\ fn_prev = NoCall

\* lines 494-515: the method, the dummy problem, the array of values
BaselineSetUp ==
    /\ ~fn_out.done
    /\ ~fn_out.started
    /\ fn_out' = [done |-> FALSE, started |-> TRUE, i |-> 0, calls |-> <<>>,
                  method |-> "BenchmarkMethod(get_sobol_generation_strategy())",
                  dummy_problem |->
                      dummy_problem(fn_args.optimization_config,
                                    fn_args.target_fidelity_and_task)]
    /\ UNCHANGED <<replication, logger_level, fn_args, fn_prev>>

\* lines 516-523: pass i of the loop, one replication with seed=i; calls
\* keeps what each replication was called with.
BaselineReplication ==
    /\ fn_out.started
    /\ ~fn_out.done
    /\ fn_out.i < fn_args.n_repeats
    /\ fn_out' = [fn_out EXCEPT
                    !.calls = Append(@, benchmark_replication(
                                            fn_out.dummy_problem, fn_out.method,
                                            fn_out.i, fn_out.i + 1)),
                    !.i = @ + 1]
    /\ UNCHANGED <<replication, logger_level, fn_args, fn_prev>>

\* line 525: return values.mean()
BaselineReturn ==
    /\ fn_out.started
    /\ ~fn_out.done
    /\ fn_out.i >= fn_args.n_repeats
    /\ fn_out' = [fn_out EXCEPT !.done = TRUE]
    /\ UNCHANGED <<replication, logger_level, fn_args, fn_prev>>

BaselineNext ==
    \/ BaselineSetUp
    \/ BaselineReplication
    \/ BaselineReturn

BaselineSpec == BaselineInit /\ [][BaselineNext]_vars

\* ------------------------------------------------------------------------
\* BenchmarkMethod.__post_init__, benchmark_method.py lines 41-68
\* ------------------------------------------------------------------------
\* A dict is the set of its items, with booleans for values; Python's None
\* is told apart by is_none. dict.get(key, default):
DictGet(items, key, default) ==
    IF \E v \in BOOLEAN : <<key, v>> \in items
    THEN CHOOSE v \in BOOLEAN : <<key, v>> \in items
    ELSE default

\* d[key] = value
DictSet(items, key, value) ==
    {kv \in items : kv[1] # key} \cup {<<key, value>>}

\* GenerationStrategy.clone_reset() (external collaborator): a new object
\* with copies of the steps, in the base state (nothing generated yet).
clone_reset(generation_strategy) ==
    [generation_strategy EXCEPT !.id = "clone", !.generated = 0]

\* Mutant: the steps of the caller's object are worked on.
gs_cloned_InPlace(generation_strategy) == generation_strategy

\* line 57: gs_cloned = self.generation_strategy.clone_reset()
gs_cloned(generation_strategy) == clone_reset(generation_strategy)

\* Mutant: the key is set only where it is there already.
StepModelKwargs_OnlyIfPresent(model_kwargs) ==
    IF model_kwargs.is_none
    THEN [is_none |-> FALSE, items |-> {}]
    ELSE IF <<"fit_tracking_metrics", TRUE>> \in model_kwargs.items
    THEN [is_none |-> FALSE,
          items |-> DictSet(model_kwargs.items, "fit_tracking_metrics", FALSE)]
    ELSE model_kwargs

\* lines 59-65: the model_kwargs of one step after the pass of the loop
StepModelKwargs(model_kwargs) ==
    LET kwargs == IF model_kwargs.is_none THEN {} ELSE model_kwargs.items
    IN  IF DictGet(kwargs, "fit_tracking_metrics", TRUE)
        THEN [is_none |-> FALSE,
              items |-> DictSet(kwargs, "fit_tracking_metrics", FALSE)]
        ELSE [is_none |-> FALSE, items |-> kwargs]

\* lines 62-64: the pass logs a warning
StepWarns(model_kwargs) ==
    DictGet(IF model_kwargs.is_none THEN {} ELSE model_kwargs.items,
            "fit_tracking_metrics", TRUE)

\* lines 41-68 and 90-94: what the construction raises, the object the
\* method holds as generation_strategy afterwards, the caller's object as it
\* is afterwards, the calls of clone_reset and the warnings logged.
__post_init__(generation_strategy) ==
    IF generation_strategy.is_node_based
    THEN [raised |-> "NotImplementedError",
          held |-> generation_strategy,
          original |-> generation_strategy,
          clone_calls |-> 0,
          warnings |-> 0]
    ELSE LET cloned == gs_cloned(generation_strategy)
             stepped == [cloned EXCEPT !.steps =
                            [i \in 1..Len(cloned.steps) |-> StepModelKwargs(cloned.steps[i])]]
         IN  [raised |-> "none",
              held |-> stepped,
              original |-> IF stepped.id = generation_strategy.id
                           THEN stepped
                           ELSE generation_strategy,
              clone_calls |-> 1,
              warnings |-> Cardinality({i \in 1..Len(cloned.steps) :
                                           StepWarns(cloned.steps[i])})]

\* The model_kwargs of a step: None, or a dict with or without
\* fit_tracking_metrics and with or without another key.
ModelKwargs ==
    {[is_none |-> TRUE, items |-> {}]} \cup
    {[is_none |-> FALSE, items |-> fit \cup other] :
        fit \in {{}, {<<"fit_tracking_metrics", TRUE>>}, {<<"fit_tracking_metrics", FALSE>>}},
        other \in {{}, {<<"torch_device", TRUE>>}}}

\* The caller's generation strategy: step-based or node-based, used before
\* or not, each step being its model_kwargs.
GenerationStrategies ==
    [id : {"original"}, is_node_based : BOOLEAN, generated : 0..1,
     steps : SeqsUpTo(ModelKwargs, MaxGenSteps)]

MethodInit ==
    /\ ReplicationIdle
    /\ logger_level = "INFO"
    /\ \E generation_strategy \in GenerationStrategies :
          fn_args = [generation_strategy |-> generation_strategy]
    /\ fn_out = NoCall
    /\ fn_prev = NoCall

\* BenchmarkMethod(name, generation_strategy, scheduler_options)
ConstructBenchmarkMethod ==
    /\ ~fn_out.done
    /\ fn_out' = [done |-> TRUE, out |-> __post_init__(fn_args.generation_strategy)]
    /\ fn_prev' = fn_out
    /\ UNCHANGED <<replication, logger_level, fn_args>>

MethodNext == ConstructBenchmarkMethod

MethodSpec == MethodInit /\ [][MethodNext]_vars

\* ------------------------------------------------------------------------
\* Properties
\* ------------------------------------------------------------------------
\* The loop body has just run: the generator had yielded a step.
IsLoopStep == gen = "yielded" /\ gen' # "yielded"

\* The trials whose arms are in entry k of evaluated_arms_list.
TrialsOfEntry(k) ==
    {i \in DOMAIN trials : TrialArms(i) \subseteq evaluated_arms_list[k]}

\* C1: cost_trace and evaluated_arms_list always have the same length, each
\* gets exactly one entry on a progress step with newly completed trials and
\* none on any other step, and in the result cost_trace and oracle_trace have
\* the same length.
C1_CostAndOracleSameLength ==
    /\ [](Len(cost_trace) = Len(evaluated_arms_list))
    /\ [](result.built => Len(result.cost_trace) = Len(result.oracle_trace))
    /\ [][IF IsLoopStep /\ newly_completed_trials' # {}
          THEN /\ Len(cost_trace') = Len(cost_trace) + 1
               /\ Len(evaluated_arms_list') = Len(evaluated_arms_list) + 1
          ELSE /\ cost_trace' = cost_trace
               /\ evaluated_arms_list' = evaluated_arms_list]_vars

\* A result with two recorded steps, after a step that recorded nothing.
C1_Witness ==
    /\ result.built
    /\ Len(result.oracle_trace) = 2
    /\ Len(result.cost_trace) = 2
    /\ steps > 2

\* C2: the newly completed set of a step is the currently completed trials
\* minus those seen at the previous step, the trials of two different
\* entries of evaluated_arms_list are disjoint, every trial is in at most one
\* entry, and without a simulator each entry of cost_trace adds the runtimes
\* of exactly the trials of that entry.
C2_NoDoubleCounting ==
    /\ [][IsLoopStep =>
            /\ newly_completed_trials' =
                  CompletedTrials(trials) \ previously_completed_trial_idcs
            /\ previously_completed_trial_idcs' = CompletedTrials(trials)]_vars
    /\ [](\A j, k \in 1..Len(evaluated_arms_list) :
            j # k => TrialsOfEntry(j) \cap TrialsOfEntry(k) = {})
    /\ [](\A i \in DOMAIN trials :
            Cardinality({k \in 1..Len(evaluated_arms_list) :
                            i \in TrialsOfEntry(k)}) <= 1)
    /\ [](~simulated =>
            \A k \in 1..Len(cost_trace) :
                cost_trace[k] =
                    (IF k = 1 THEN 0 ELSE cost_trace[k - 1])
                    + SumRuntime(TrialsOfEntry(k)))

\* Two recorded steps, the second after another trial completed, with a step
\* between them on which nothing completed.
C2_Witness ==
    /\ Len(evaluated_arms_list) = 2
    /\ TrialsOfEntry(1) # {}
    /\ TrialsOfEntry(2) # {}
    /\ steps > 2
    /\ ~simulated

\* C3: a loop step that does not raise leaves the loop for TIMED_OUT if and
\* only if timeout_hours is set and timeout_hours minus the elapsed time is
\* <= 0 at the check after that step, whether or not the step had newly
\* completed trials; the loop is left for TIMED_OUT only by that check; once
\* it has fired no further progress step is consumed; with timeout_hours None
\* the loop only ends when the generator is exhausted.
C3_LeavesEarlyIffTimedOut ==
    /\ [][IsLoopStep /\ pc' # "FAILED" =>
            (pc' = "TIMED_OUT" <=>
                (timeout_hours # NONE /\ timeout_hours - (now - start) <= 0))]_vars
    /\ [][pc' = "TIMED_OUT" /\ pc # "TIMED_OUT" => IsLoopStep]_vars
    /\ [][warned => steps' = steps /\ trials' = trials]_vars
    /\ [][timeout_hours = NONE /\ pc = "RUNNING" /\ pc' \notin {"RUNNING", "FAILED"}
            => pc' = "EXHAUSTED" /\ gen = "exhausted"]_vars

\* The timeout fired on a step on which no trial newly completed, with the
\* budget exactly used up.
C3_Witness ==
    /\ pc = "TIMED_OUT"
    /\ newly_completed_trials = {}
    /\ steps >= 2
    /\ remaining_hours = 0

\* C4: a timeout is not an error: once the warning is logged the replication
\* never fails and is never stuck before DONE, TIMED_OUT is only entered with
\* the warning logged, nothing more is run or recorded after the timeout, and
\* the result returned holds the bookkeeping of every step processed,
\* including the step on which the timeout was detected: every trial
\* completed by then is in an entry.
C4_TimeoutIsNotAnError ==
    /\ [](warned => pc \in {"TIMED_OUT", "FINALIZING", "DONE"})
    /\ [](warned /\ pc # "DONE" => ENABLED Next)
    /\ [](pc = "TIMED_OUT" => warned)
    /\ [][warned => /\ trials' = trials
                    /\ cost_trace' = cost_trace
                    /\ evaluated_arms_list' = evaluated_arms_list]_vars
    /\ [](warned /\ result.built =>
            /\ result.cost_trace = cost_trace
            /\ Len(result.oracle_trace) = Len(evaluated_arms_list)
            /\ Len(result.inference_trace) = Len(best_params_list)
            /\ CompletedTrials(trials) =
                  UNION {TrialsOfEntry(k) : k \in 1..Len(evaluated_arms_list)}
            /\ newly_completed_trials # {} =>
                  /\ evaluated_arms_list # <<>>
                  /\ TrialsOfEntry(Len(evaluated_arms_list))
                        = newly_completed_trials)

\* A result returned after a timeout detected on a step that completed a
\* trial, before num_trials trials had run.
C4_Witness ==
    /\ result.built
    /\ warned
    /\ newly_completed_trials # {}
    /\ Cardinality(DOMAIN trials) < num_trials

\* A result with empty traces returned after a timeout.
C4_WitnessEmpty ==
    /\ result.built
    /\ warned
    /\ result.oracle_trace = <<>>
    /\ result.cost_trace = <<>>

\* C5 as stated: at every iteration the budget the scheduler has been asked
\* to honor is the remaining budget, timeout minus elapsed time.
C5_SchedulerGivenRemainingBudget ==
    (pc = "RUNNING" /\ gen = "waiting" /\ timeout_hours # NONE)
        => sched_timeout = remaining_hours

\* C5 amended: the scheduler is asked once, before the first step, to honor the
\* full timeout, counted from the start of the loop; the driver recomputes
\* its own remaining budget after every step as timeout minus the time
\* elapsed since the loop started; that budget never increases, and no
\* progress step starts once the timeout has elapsed.
C5_TimeoutBoundsWholeReplication ==
    /\ [](gen # "none" /\ timeout_hours # NONE => sched_timeout = timeout_hours)
    /\ [][gen # "none" => sched_timeout' = sched_timeout]_vars
    /\ [][IsLoopStep /\ timeout_hours # NONE /\ pc' # "FAILED" =>
            remaining_hours' = timeout_hours - (now - start)]_vars
    /\ [][timeout_hours # NONE /\ pc # "CONFIGURING" =>
            remaining_hours' <= remaining_hours]_vars
    /\ [][steps' # steps =>
            (timeout_hours = NONE \/ now - start < timeout_hours)]_vars

\* A second iteration begins with a budget that has shrunk but is not used up.
C5_Witness ==
    /\ pc = "RUNNING"
    /\ gen = "waiting"
    /\ steps >= 1
    /\ timeout_hours # NONE
    /\ remaining_hours > 0
    /\ remaining_hours < timeout_hours

\* All trials that completed or stopped early are in an entry.
AllCompletedRecorded ==
    CompletedTrials(trials) =
        UNION {TrialsOfEntry(k) : k \in 1..Len(evaluated_arms_list)}

\* C6: get_best_parameters is called on a loop step if and only if the step
\* has newly completed trials and the problem is single-objective without
\* target fidelity/task parameters, and nowhere else; for a multi-objective,
\* multi-fidelity or multi-task problem it is never called and the inference
\* trace is empty, while cost_trace and oracle_trace have their entry for
\* every recorded step.
C6_BestPointOnlyWhenSupported ==
    /\ [][IsLoopStep =>
            (best_calls' = best_calls + 1 <=>
                (newly_completed_trials' # {} /\ ~is_moo /\ ~is_mf_or_mt))]_vars
    /\ [][best_calls' # best_calls =>
            IsLoopStep /\ best_calls' = best_calls + 1]_vars
    /\ [](is_moo \/ is_mf_or_mt =>
            /\ best_calls = 0
            /\ best_params_list = <<>>
            /\ result.built =>
                  /\ result.inference_trace = <<>>
                  /\ Len(result.oracle_trace) = Len(evaluated_arms_list)
                  /\ result.cost_trace = cost_trace
                  /\ AllCompletedRecorded)

\* A multi-objective replication returns two oracle entries and no inference
\* entry.
C6_Witness ==
    /\ is_moo
    /\ ~is_mf_or_mt
    /\ result.built
    /\ Len(result.oracle_trace) = 2
    /\ Len(result.cost_trace) = 2
    /\ result.inference_trace = <<>>

\* C7: when the inference trace is computable, after every step that did not
\* raise best_params_list, evaluated_arms_list and cost_trace have the same
\* length, the returned inference trace has the length of the oracle trace,
\* its k-th entry is the oracle value of the k-th recorded best point, and the
\* k-th best point was recommended from the arms recorded up to entry k.
C7_InferenceAlignedWithOracle ==
    /\ (~is_moo /\ ~is_mf_or_mt /\ pc # "FAILED") =>
          /\ Len(best_params_list) = Len(evaluated_arms_list)
          /\ Len(best_params_list) = Len(cost_trace)
    /\ (~is_moo /\ ~is_mf_or_mt /\ result.built) =>
          /\ Len(result.inference_trace) = Len(result.oracle_trace)
          /\ \A k \in 1..Len(best_params_list) :
                result.inference_trace[k] = TestFunction(best_params_list[k])
    /\ \A k \in 1..Len(best_params_list) :
          /\ k <= Len(evaluated_arms_list)
          /\ best_params_list[k] \in UNION {evaluated_arms_list[j] : j \in 1..k}

\* A single-objective replication returns two inference entries, the second
\* one repeating the first recommendation.
C7_Witness ==
    /\ ~is_moo
    /\ ~is_mf_or_mt
    /\ result.built
    /\ Len(result.inference_trace) = 2
    /\ best_params_list[1] = best_params_list[2]

\* C8: without a timeout the number of recorded steps is at most num_trials
\* and at most the number of trials that reached COMPLETED or EARLY_STOPPED,
\* during the loop and in the oracle trace returned, which is shorter than
\* that number exactly when several trials completed on one step.
C8_AtMostNumTrialsSteps ==
    timeout_hours = NONE =>
        /\ Len(evaluated_arms_list) <= num_trials
        /\ Len(evaluated_arms_list) <= Cardinality(CompletedTrials(trials))
        /\ result.built =>
              /\ Len(result.oracle_trace) <= num_trials
              /\ Len(result.oracle_trace) <= Cardinality(CompletedTrials(trials))
              /\ Len(result.oracle_trace) < Cardinality(CompletedTrials(trials))
                    <=> \E k \in 1..Len(evaluated_arms_list) :
                            Cardinality(TrialsOfEntry(k)) > 1

\* Two trials completed on one step: fewer oracle entries than trials.
C8_Witness ==
    /\ timeout_hours = NONE
    /\ result.built
    /\ Cardinality(CompletedTrials(trials)) = 2
    /\ Len(result.oracle_trace) = 1
    /\ steps = MaxSteps

\* The order of the states of a replication; FAILED is an exception leaving
\* benchmark_replication.
StateOrder ==
    {<<"CONFIGURING", "RUNNING">>, <<"RUNNING", "TIMED_OUT">>,
     <<"RUNNING", "EXHAUSTED">>, <<"TIMED_OUT", "FINALIZING">>,
     <<"EXHAUSTED", "FINALIZING">>, <<"FINALIZING", "DONE">>,
     <<"RUNNING", "FAILED">>, <<"FINALIZING", "FAILED">>}

\* C9: the states are passed in the order CONFIGURING, RUNNING, TIMED_OUT or
\* EXHAUSTED, FINALIZING, DONE; poll_and_process_results has been called
\* exactly once when the progress steps are requested and never again;
\* summarize_final_result is called exactly once, after the loop has ended on
\* either exit and before any trace is computed; the result is built last.
C9_StatesInOrder ==
    /\ [][pc' # pc => <<pc, pc'>> \in StateOrder]_vars
    /\ [](poll_calls = IF gen = "none" THEN 0 ELSE 1)
    /\ [](steps > 0 => poll_calls = 1)
    /\ [](pc \in {"CONFIGURING", "RUNNING", "TIMED_OUT", "EXHAUSTED"} =>
            summarize_calls = 0 /\ ~traces.computed /\ ~result.built)
    /\ [](pc \in {"FINALIZING", "DONE"} => summarize_calls = 1)
    /\ [](traces.computed => summarize_calls = 1)
    /\ [](result.built <=> pc = "DONE")
    /\ [](result.built => traces.computed)

\* A replication that timed out is DONE after one final summary.
C9_Witness ==
    /\ pc = "DONE"
    /\ warned
    /\ summarize_calls = 1
    /\ poll_calls = 1
    /\ result.built

\* C10: a replication in which no collaborator raises reaches DONE, with or
\* without a timeout, the scheduler's sequence of steps being finite.
C10_Terminates == [](pc # "FAILED") => <>(pc = "DONE" /\ result.built)

\* A replication without a timeout is DONE after the scheduler's last step.
C10_Witness ==
    /\ pc = "DONE"
    /\ result.built
    /\ timeout_hours = NONE
    /\ steps = MaxSteps

\* A replication with a timeout is DONE although the loop was left early.
C10_WitnessTimeout ==
    /\ pc = "DONE"
    /\ result.built
    /\ warned
    /\ steps < MaxSteps

\* C11: a loop step on which no trial newly completed changes none of cost,
\* cost_trace, evaluated_arms_list, best_params_list, asks the method for no
\* best point and cannot raise; the timeout check is still made.
C11_IdleStepDoesNoBookkeeping ==
    [][IsLoopStep /\ newly_completed_trials' = {} =>
        /\ cost' = cost
        /\ cost_trace' = cost_trace
        /\ evaluated_arms_list' = evaluated_arms_list
        /\ best_params_list' = best_params_list
        /\ best_calls' = best_calls
        /\ pc' # "FAILED"
        /\ timeout_hours # NONE =>
              /\ remaining_hours' = timeout_hours - (now - start)
              /\ pc' = "TIMED_OUT" <=> remaining_hours' <= 0]_vars

\* After a recorded step, a step on which nothing completed has been
\* processed and the loop goes on with a smaller budget.
C11_Witness ==
    /\ pc = "RUNNING"
    /\ gen = "waiting"
    /\ steps >= 2
    /\ newly_completed_trials = {}
    /\ Len(cost_trace) = 1
    /\ timeout_hours # NONE
    /\ remaining_hours < timeout_hours

\* C14: with a simulated backend _get_cumulative_cost returns the simulator's
\* current time for every previous cost and every set of new trials, and so
\* the cost recorded on a step is the simulator's time at that step.
C14_SimulatedCostIsSimulatorTime ==
    /\ [](simulated =>
            \A previous_cost \in 0..(MaxSteps + 1) :
                \A new_trials \in SUBSET (DOMAIN trials) :
                    _get_cumulative_cost(previous_cost, new_trials)
                        = SimulatorTime)
    /\ [][IsLoopStep /\ simulated /\ newly_completed_trials' # {} =>
            /\ cost' = SimulatorTime
            /\ cost_trace'[Len(cost_trace')] = SimulatorTime]_vars

\* With a simulator two steps are recorded, the second at a simulator time
\* that is not the first cost plus anything per trial.
C14_Witness ==
    /\ simulated
    /\ Len(cost_trace) = 2
    /\ cost_trace[1] = 1
    /\ cost_trace[2] = 3

\* C15: without a simulated backend the k-th entry of cost_trace is the sum
\* of the runtimes of all trials recorded in entries 1..k, and cost is the
\* last entry (0 before the first).
C15_CostIsSumOfRuntimes ==
    ~simulated =>
        /\ \A k \in 1..Len(cost_trace) :
              /\ k <= Len(evaluated_arms_list)
              /\ cost_trace[k] =
                    SumRuntime(UNION {TrialsOfEntry(j) : j \in 1..k})
        /\ cost = IF cost_trace = <<>> THEN 0
                  ELSE cost_trace[Len(cost_trace)]

\* Without a simulator the second entry holds the runtimes of both trials.
C15_Witness ==
    /\ ~simulated
    /\ Len(cost_trace) = 2
    /\ cost_trace[1] > 0
    /\ cost_trace[2] = TrialRuntime(0) + TrialRuntime(1)

\* C16: cost_trace never decreases from one entry to the next, with and
\* without a simulated backend.
C16_CostTraceMonotone ==
    \A k \in 1..(Len(cost_trace) - 1) : cost_trace[k] <= cost_trace[k + 1]

\* Without a simulator, the trial with the larger runtime was recorded first.
C16_Witness ==
    /\ ~simulated
    /\ Len(cost_trace) = 2
    /\ TrialsOfEntry(1) = {1}
    /\ TrialsOfEntry(2) = {0}
    /\ cost_trace[1] < cost_trace[2]

\* With a simulator, two entries were recorded.
C16_WitnessSimulated ==
    /\ simulated
    /\ Len(cost_trace) = 2
    /\ cost_trace[1] < cost_trace[2]

\* C12: the optimization trace returned is the inference trace when
\* problem.report_inference_value_as_trace is set and the oracle trace
\* otherwise, and the score trace has its length, entry i being
\* 100 * (optimization_trace[i] - baseline_value) over
\* (optimal_value - baseline_value).
C12_OptimizationTraceSelected ==
    result.built =>
        /\ result.report_inference_value_as_trace =>
              result.optimization_trace = result.inference_trace
        /\ ~result.report_inference_value_as_trace =>
              result.optimization_trace = result.oracle_trace
        /\ Len(result.score_trace) = Len(result.optimization_trace)
        /\ \A i \in 1..Len(result.optimization_trace) :
              /\ result.score_trace[i].num =
                    100 * (result.optimization_trace[i] - BaselineValue)
              /\ result.score_trace[i].den = OptimalValue - BaselineValue

\* The inference trace is the primary one and differs from the oracle trace.
C12_Witness ==
    /\ result.built
    /\ result.report_inference_value_as_trace
    /\ Len(result.inference_trace) = 2
    /\ result.inference_trace # result.oracle_trace
    /\ Len(result.score_trace) = 2

\* ------------------------------------------------------------------------
\* Comparing a quotient with an integer without dividing
\* ------------------------------------------------------------------------
QuotientEquals(q, k) == q.num = k * q.den

QuotientAbove(q, k) == IF q.den > 0 THEN q.num > k * q.den ELSE q.num < k * q.den

QuotientBelow(q, k) == IF q.den > 0 THEN q.num < k * q.den ELSE q.num > k * q.den

\* x is further than the optimum in the direction from baseline to optimum.
BeyondOptimum(x, baseline_value, optimal_value) ==
    IF optimal_value > baseline_value THEN x > optimal_value ELSE x < optimal_value

\* x is on the other side of the baseline than the optimum.
WorseThanBaseline(x, baseline_value, optimal_value) ==
    IF optimal_value > baseline_value THEN x < baseline_value ELSE x > baseline_value

C13_WitnessBeyond ==
    /\ fn_out.done
    /\ fn_args = [optimization_trace |-> <<0, 3>>, baseline_value |-> 1, optimal_value |-> 2]
    /\ QuotientBelow(fn_out.value[1], 0)
    /\ QuotientAbove(fn_out.value[2], 100)

\* ------------------------------------------------------------------------
\* The oracle evaluator called on its own
\* ------------------------------------------------------------------------
\* The mapping the calls were made with.
CalledWith == fn_args.dict_of_dict_of_params

SomeEntryEmpty == \E n \in DOMAIN CalledWith : CalledWith[n].arms = {}

\* C17: whenever some entry of the mapping has no arms, the call fails with
\* a ValueError and returns no experiment.
C17_EmptyEntryIsValueError ==
    (fn_out.done /\ SomeEntryEmpty) =>
        (fn_out.error = "ValueError" /\ ~fn_out.returned)

\* {1: {"0_0": p}, 0: {}}: the entry before the empty one has a key that is
\* not the index its trial gets, and the call ends there with a KeyError.
C17_Witness ==
    /\ fn_out.done
    /\ CalledWith = <<[key |-> 1, arms |-> {<<0, 0>>}], [key |-> 0, arms |-> {}]>>
    /\ fn_out.error = "KeyError"

\* C18: for a mapping whose entries all have an arm, whatever its keys, the
\* call returns an experiment with one trial per entry, the trial with
\* index k holding the arms of the entry keyed k, every trial run with zero
\* noise and COMPLETED, and the data fetched when all of them were completed.
C18_OneCompletedTrialPerEntry ==
    (fn_out.done /\ ~SomeEntryEmpty) =>
        /\ fn_out.error = "none"
        /\ fn_out.returned
        /\ Len(fn_out.trials) = Len(CalledWith)
        /\ \A n \in DOMAIN CalledWith :
              /\ CalledWith[n].key + 1 \in DOMAIN fn_out.trials
              /\ fn_out.trials[CalledWith[n].key + 1].arms = CalledWith[n].arms
        /\ \A i \in DOMAIN fn_out.trials :
              /\ fn_out.trials[i].status = "COMPLETED"
              /\ fn_out.trials[i].noise_std = 0
              /\ i - 1 \in fn_out.fetched

\* {1: {"0_0": p}}: the trial attached gets index 0, and experiment.trials[1]
\* is a KeyError.
C18_Witness ==
    /\ fn_out.done
    /\ CalledWith = <<[key |-> 1, arms |-> {<<0, 0>>}]>>
    /\ fn_out.error = "KeyError"
    /\ ~fn_out.returned

\* What a call gives its caller.
Outcome(call) ==
    [error |-> call.error, returned |-> call.returned, trials |-> call.trials,
     fetched |-> call.fetched, trace |-> call.trace]

\* C19: of two calls with the same inputs the second gives what the first
\* gave, and the first leaves nothing behind: the second starts with the
\* logger at the level the first started with.
C19_SecondCallAsTheFirst ==
    fn_prev.done =>
        /\ Outcome(fn_out) = Outcome(fn_prev)
        /\ fn_out.entry_level = fn_prev.entry_level

\* {0: {}} twice, the logger at INFO: both calls raise the ValueError, the
\* second with the logger at WARNING when it starts.
C19_Witness ==
    /\ fn_prev.done
    /\ CalledWith = <<[key |-> 0, arms |-> {}]>>
    /\ Outcome(fn_out) = Outcome(fn_prev)
    /\ fn_prev.entry_level = "INFO"
    /\ fn_out.entry_level = "WARNING"

\* C20: on every way out of get_oracle_experiment_from_params, the
\* ValueError for an entry without arms and an error while a trial is
\* attached or run included, the logger is at the level it had before the
\* call.
C20_LoggerLevelRestored ==
    fn_out.done => logger_level = fn_out.entry_level

\* {0: {}}, the logger at INFO: the ValueError leaves it at WARNING.
C20_Witness ==
    /\ fn_out.done
    /\ ~fn_prev.done
    /\ CalledWith = <<[key |-> 0, arms |-> {}]>>
    /\ fn_out.error = "ValueError"
    /\ fn_out.entry_level = "INFO"
    /\ logger_level = "WARNING"

\* ------------------------------------------------------------------------
\* The merge with the target fidelity and task
\* ------------------------------------------------------------------------
\* C21: every parameterization the oracle evaluator attaches is the arm's
\* parameters merged with problem.target_fidelity_and_task: a parameter
\* named there has the problem's value, whatever the arm's own value, and
\* every other parameter of the arm is kept as it is; nothing else is added.
C21_TargetMergedIntoParameters ==
    fn_out.done =>
        LET d == fn_args.dict_of_params
            t == fn_args.target_fidelity_and_task
            out == fn_out.parameterizations
        IN  /\ DOMAIN out = DOMAIN d
            /\ \A name \in DOMAIN d :
                  /\ DOMAIN out[name] = DOMAIN d[name] \cup DOMAIN t
                  /\ \A k \in DOMAIN t : out[name][k] = t[k]
                  /\ \A k \in DOMAIN d[name] \ DOMAIN t : out[name][k] = d[name][k]

\* An arm with its own fidelity 0 is evaluated at the target fidelity 1, its
\* x0 kept.
C21_Witness ==
    /\ fn_out.done
    /\ "0_0" \in DOMAIN fn_args.dict_of_params
    /\ fn_args.dict_of_params["0_0"] = [k \in {"x0", "fidelity"} |-> 0]
    /\ fn_args.target_fidelity_and_task = [k \in {"fidelity"} |-> 1]
    /\ fn_out.parameterizations["0_0"] =
          [k \in {"x0", "fidelity"} |-> IF k = "fidelity" THEN 1 ELSE 0]

\* ------------------------------------------------------------------------
\* The scheduler options
\* ------------------------------------------------------------------------
\* C22, as stated: the trial type is the batched one exactly when the
\* method's batch size is > 1 or the status quo is included; the polling
\* delays are 0 and status_quo_weight is 1.0 exactly when the status quo is
\* included.
C22_BatchedIffBatchSizeOrStatusQuo ==
    fn_out.done =>
        /\ fn_out.options.trial_type = "BATCH_TRIAL" <=>
              (fn_args.method.batch_size > 1 \/ fn_args.include_sq)
        /\ fn_out.options.trial_type \in {"BATCH_TRIAL", "TRIAL"}
        /\ fn_out.options.init_seconds_between_polls = 0
        /\ fn_out.options.min_seconds_before_poll = 0
        /\ fn_out.options.status_quo_weight = 1 <=> fn_args.include_sq

\* C22, amended: the trial type is the batched one exactly when the
\* method's batch size is None or > 1 or the status quo is included, and
\* the single-arm one otherwise; the polling delays are 0 and
\* status_quo_weight is 1.0 when the status quo is included, 0.0 otherwise.
C22_BatchedIffNoneOrBatchSizeOrStatusQuo ==
    fn_out.done =>
        /\ fn_out.options.trial_type = "BATCH_TRIAL" <=>
              \/ fn_args.method.batch_size = NONE
              \/ fn_args.method.batch_size > 1
              \/ fn_args.include_sq
        /\ fn_out.options.trial_type \in {"BATCH_TRIAL", "TRIAL"}
        /\ fn_out.options.init_seconds_between_polls = 0
        /\ fn_out.options.min_seconds_before_poll = 0
        /\ fn_out.options.status_quo_weight = (IF fn_args.include_sq THEN 1 ELSE 0)

\* A method without a batch size and no status quo: batched trials.
C22_Witness ==
    /\ fn_out.done
    /\ fn_args.method.batch_size = NONE
    /\ ~fn_args.include_sq
    /\ fn_out.options.trial_type = "BATCH_TRIAL"
    /\ fn_out.options.status_quo_weight = 0

\* Batch size 1 with the status quo: batched trials as well.
C22_WitnessStatusQuo ==
    /\ fn_out.done
    /\ fn_args.method.batch_size = 1
    /\ fn_args.include_sq
    /\ fn_out.options.trial_type = "BATCH_TRIAL"
    /\ fn_out.options.status_quo_weight = 1

\* ------------------------------------------------------------------------
\* The aggregation drivers
\* ------------------------------------------------------------------------
\* C23: benchmark_multiple_problems_methods returns one aggregated result
\* per (problem, method) pair, len(problems) * len(methods) in all, in
\* problem-major order: the i-th result is of problem (i-1) div len(methods)
\* and of method (i-1) mod len(methods), counting from 0.
C23_OnePerPairProblemMajor ==
    LET agg == fn_out.aggregated
        nm == Len(fn_args.methods)
    IN  /\ \A i \in 1..Len(agg) :
              /\ agg[i].problem = fn_args.problems[((i - 1) \div nm) + 1]
              /\ agg[i].method = fn_args.methods[((i - 1) % nm) + 1]
        /\ (fn_out.done /\ ~fn_out.raised) =>
              Len(agg) = Len(fn_args.problems) * Len(fn_args.methods)

\* Two problems and two methods: four results are returned.
C23_Witness ==
    /\ fn_out.done
    /\ ~fn_out.raised
    /\ Len(fn_args.problems) = 2
    /\ Len(fn_args.methods) = 2
    /\ Len(fn_args.seeds) > 0
    /\ Len(fn_out.aggregated) = 4

\* C24: in what benchmark_multiple_problems_methods returns, every pair's
\* aggregated result is built from one replication result per seed of
\* seeds, in the order of seeds, whatever kind of iterable seeds is.
C24_EveryPairRunsEverySeed ==
    (fn_out.done /\ ~fn_out.raised) =>
        \A i \in 1..Len(fn_out.aggregated) :
            LET results == fn_out.aggregated[i].results
            IN  [j \in 1..Len(results) |-> results[j].seed] = fn_args.seeds

\* seeds is an iterator over two seeds: the first pair runs both, the second
\* pair runs none.
C24_Witness ==
    /\ fn_out.done
    /\ ~fn_out.raised
    /\ fn_args.seeds_kind = "iterator"
    /\ Len(fn_args.seeds) = 2
    /\ Len(fn_out.aggregated) = 2
    /\ Len(fn_out.aggregated[1].results) = 2
    /\ fn_out.aggregated[2].results = <<>>

\* The replications that have returned so far, in the order they ran.
AllReplications ==
    Flatten([i \in 1..Len(fn_out.aggregated) |-> fn_out.aggregated[i].results]) \o fn_out.results

\* The objects that outlive a replication.
ProblemAndMethodObjects ==
    {<<"problem", p>> : p \in 1..Len(fn_args.problems)}
        \cup {<<"method", m>> : m \in 1..Len(fn_args.methods)}
        \cup {<<"method.generation_strategy", m>> : m \in 1..Len(fn_args.methods)}

C26_SeedScopeReleasedOnEveryExit ==
    /\ [][poll_calls' # poll_calls => rng_state' = "seeded"]_vars
    /\ [][steps' # steps \/ summarize_calls' # summarize_calls
            => rng_state = "seeded"]_vars
    /\ []((pc = "RUNNING" /\ gen # "none") \/ pc \in {"TIMED_OUT", "EXHAUSTED"}
            => rng_state = "seeded")
    /\ [](pc \in {"CONFIGURING", "FINALIZING", "DONE", "FAILED"}
            => rng_state = "prior")

\* The query of the second recorded step returned nothing: the exception left
\* the loop and the prior state is back.
C26_Witness ==
    /\ pc = "FAILED"
    /\ best_returned = 0
    /\ Len(evaluated_arms_list) = 2
    /\ rng_state = "prior"

\* The loop was left by the timeout: the prior state is back.
C26_WitnessTimeout ==
    /\ pc = "FINALIZING"
    /\ warned
    /\ steps < MaxSteps
    /\ rng_state = "prior"

\* The loop was left by exhaustion: the prior state is back.
C26_WitnessExhausted ==
    /\ pc = "FINALIZING"
    /\ ~warned
    /\ gen = "exhausted"
    /\ rng_state = "prior"

\* C27: the experiment of the result has no runner exactly when
\* strip_runner_before_saving is true and the replication's runner
\* otherwise; the runner is taken off only by the step that builds the
\* result, after the traces have been computed; from the construction of the
\* experiment until then the runner is there, in particular on every loop
\* step that computes the cost.
C27_RunnerStrippedOnlyAtTheEnd ==
    /\ [](result.built =>
            experiment_runner = (IF result.strip_runner_before_saving
                                 THEN "None" ELSE "BenchmarkRunner"))
    /\ [][experiment_runner = "BenchmarkRunner" /\ experiment_runner' # experiment_runner
            => pc = "FINALIZING" /\ traces.computed /\ pc' = "DONE"]_vars
    /\ [][IsLoopStep /\ newly_completed_trials' # {}
            => experiment_runner = "BenchmarkRunner"]_vars
    /\ [](pc \in {"RUNNING", "TIMED_OUT", "EXHAUSTED", "FINALIZING"}
            => experiment_runner = "BenchmarkRunner")

\* A result with two cost entries whose experiment has lost its runner.
C27_Witness ==
    /\ result.built
    /\ result.strip_runner_before_saving
    /\ experiment_runner = "None"
    /\ Len(result.cost_trace) = 2

\* A result whose experiment keeps its runner.
C27_WitnessKept ==
    /\ result.built
    /\ ~result.strip_runner_before_saving
    /\ experiment_runner = "BenchmarkRunner"
    /\ Len(result.cost_trace) = 2

\* C28: a loop step whose best-point query returns zero or more than one
\* parameterization ends the replication in failure: best_params_list is
\* left as it was, one entry short of evaluated_arms_list, nothing runs
\* after the failure and no result is built.
C28_UnpackFailurePropagates ==
    /\ [][IsLoopStep /\ best_returned' \notin {NONE, 1}
            => pc' = "FAILED" /\ best_params_list' = best_params_list]_vars
    /\ [][pc # "FAILED"]_vars
    /\ [](pc = "FAILED" => ~result.built /\ ~traces.computed)
    /\ [](pc = "FAILED" /\ best_returned \notin {NONE, 1}
            => Len(best_params_list) = Len(evaluated_arms_list) - 1)

\* The query of the second recorded step returned two parameterizations.
C28_Witness ==
    /\ pc = "FAILED"
    /\ best_returned = 2
    /\ Len(best_params_list) = 1
    /\ Len(evaluated_arms_list) = 2
    /\ ~result.built

\* The query of the first recorded step returned none.
C28_WitnessNone ==
    /\ pc = "FAILED"
    /\ best_returned = 0
    /\ best_params_list = <<>>
    /\ Len(evaluated_arms_list) = 1

\* ------------------------------------------------------------------------
\* The predicted effects plot
\* ------------------------------------------------------------------------
\* C29: PredictedEffectsPlot.compute raises UserInputError, returns no card
\* and fits no model when the experiment is None, and when the experiment is
\* given but the generation strategy is None or is not a GenerationStrategy;
\* a call without either reports the missing experiment.
C29_MissingInputsAreUserInputErrors ==
    fn_out.done =>
        /\ fn_args.experiment.is_none =>
              fn_out.out = [raised |-> NoExperiment, card |-> FALSE,
                            fit_calls |-> 0, candidate_trial |-> NONE]
        /\ (~fn_args.experiment.is_none
                /\ fn_args.generation_strategy.kind # "GenerationStrategy") =>
              fn_out.out = [raised |-> NoGenerationStrategy, card |-> FALSE,
                            fit_calls |-> 0, candidate_trial |-> NONE]

\* Neither an experiment nor a generation strategy: the experiment is
\* reported.
C29_Witness ==
    /\ fn_out.done
    /\ fn_args.experiment.is_none
    /\ fn_args.generation_strategy.kind = "None"
    /\ fn_out.out.raised = NoExperiment

\* An experiment with a trial and a generation strategy of another class.
C29_WitnessNotAGenerationStrategy ==
    /\ fn_out.done
    /\ ~fn_args.experiment.is_none
    /\ fn_args.experiment.trials = <<"COMPLETED">>
    /\ fn_args.generation_strategy.kind = "GenerationStrategyInterface"
    /\ fn_args.generation_strategy.model = "None"
    /\ fn_out.out.raised = NoGenerationStrategy
    /\ fn_out.out.fit_calls = 0

\* C30: get_constraint_violated_probabilities raises UserInputError and
\* returns nothing when at least one of the constraints it is given is
\* relative; given no constraint it returns the one key
\* 'any_constraint_violated' with one 0.0 per prediction.
C30_RelativeConstraintsRefused ==
    fn_out.done =>
        /\ (\E i \in 1..Len(fn_args.outcome_constraints) :
                fn_args.outcome_constraints[i].relative) =>
              fn_out.out = [raised |-> "UserInputError", returned |-> <<>>]
        /\ fn_args.outcome_constraints = <<>> =>
              /\ fn_out.out.raised = "none"
              /\ DOMAIN fn_out.out.returned = {"any_constraint_violated"}
              /\ fn_out.out.returned["any_constraint_violated"] =
                    [k \in 1..fn_args.n_predictions |-> 0]

\* Two constraints, only the second one relative.
C30_Witness ==
    /\ fn_out.done
    /\ Len(fn_args.outcome_constraints) = 2
    /\ ~fn_args.outcome_constraints[1].relative
    /\ fn_args.outcome_constraints[2].relative
    /\ fn_args.n_predictions = 2
    /\ fn_out.out.raised = "UserInputError"

\* No constraint and two predictions.
C30_WitnessEmpty ==
    /\ fn_out.done
    /\ fn_args.outcome_constraints = <<>>
    /\ fn_args.n_predictions = 2
    /\ fn_out.out.returned["any_constraint_violated"] = <<0, 0>>

\* ------------------------------------------------------------------------
\* The metric to plot
\* ------------------------------------------------------------------------
\* C31: select_metric returns the name of the metric of the objective when
\* the objective is a single one, neither MultiObjective nor
\* ScalarizedObjective; it raises and returns no name when the experiment
\* has no optimization config, when the objective is a MultiObjective and
\* when it is a ScalarizedObjective.
C31_MetricOnlyOfSingleObjective ==
    fn_out.done =>
        LET optimization_config == fn_args.experiment.optimization_config
        IN  /\ optimization_config.is_none =>
                  fn_out.out.raised # "none" /\ fn_out.out.returned = ""
            /\ ~optimization_config.is_none =>
                  IF optimization_config.objective.kind = "Objective"
                  THEN fn_out.out = [raised |-> "none",
                                     returned |-> optimization_config.objective.metrics[1]]
                  ELSE fn_out.out.raised # "none" /\ fn_out.out.returned = ""

\* A multi-objective with two metrics: nothing is returned.
C31_Witness ==
    /\ fn_out.done
    /\ ~fn_args.experiment.optimization_config.is_none
    /\ fn_args.experiment.optimization_config.objective.kind = "MultiObjective"
    /\ fn_args.experiment.optimization_config.objective.metrics = <<"m2", "m1">>
    /\ fn_out.out.raised = "UnsupportedError"

\* A single objective: its metric is returned.
C31_WitnessSingle ==
    /\ fn_out.done
    /\ ~fn_args.experiment.optimization_config.is_none
    /\ fn_args.experiment.optimization_config.objective.kind = "Objective"
    /\ fn_out.out = [raised |-> "none", returned |-> "m3"]

\* ------------------------------------------------------------------------
\* Exhaustion, the oracle trace, the unvalidated primary trace
\* ------------------------------------------------------------------------
\* C32: once the scheduler's sequence of steps is exhausted, every trial that
\* is COMPLETED or EARLY_STOPPED is in exactly one entry of
\* evaluated_arms_list, and the last entry of cost_trace is the cost that
\* includes it (without a simulator: the sum of the runtimes of all of
\* them); the first progress step records every trial completed by then,
\* whenever it completed.
C32_ExhaustionLeavesNothingUnrecorded ==
    /\ [](gen = "exhausted" =>
            /\ \A i \in CompletedTrials(trials) :
                  Cardinality({k \in 1..Len(evaluated_arms_list) :
                                  i \in TrialsOfEntry(k)}) = 1
            /\ CompletedTrials(trials) # {} =>
                  /\ cost_trace # <<>>
                  /\ cost_trace[Len(cost_trace)] = cost
                  /\ ~simulated =>
                        cost_trace[Len(cost_trace)] = SumRuntime(CompletedTrials(trials)))
    /\ [][IsLoopStep /\ steps = 1 =>
            newly_completed_trials' = CompletedTrials(trials)]_vars

\* Without a timeout the loop ended by exhaustion; both trials completed on
\* one step.
C32_Witness ==
    /\ pc = "EXHAUSTED"
    /\ timeout_hours = NONE
    /\ ~simulated
    /\ Cardinality(CompletedTrials(trials)) = 2
    /\ Cardinality(DOMAIN trials) = 2
    /\ Len(evaluated_arms_list) = 1
    /\ cost_trace = <<TrialRuntime(0) + TrialRuntime(1)>>

\* C33: the traces are computed in one step of FINALIZING; the oracle
\* experiment is built once from the whole evaluated_arms_list, its trial of
\* index i holds exactly the arms of the (i+1)-th recorded step and is
\* completed, and the entry of oracle_trace at that position is the trace
\* value of that experiment there (the best over the entries up to it), so a
\* position is the list index of a step, not the index of a trial of the
\* replication; the inference trace is the oracle value of each recorded
\* best parameterization, in the order of recording.
C33_OracleTraceFromOneBatchedExperiment ==
    /\ [](traces.computed =>
            LET dummy_experiment ==
                    get_oracle_experiment_from_params(EnumerateArms(evaluated_arms_list))
            IN  /\ dummy_experiment.error = "none"
                /\ Len(dummy_experiment.trials) = Len(evaluated_arms_list)
                /\ Len(traces.oracle_trace) = Len(evaluated_arms_list)
                /\ \A k \in 1..Len(evaluated_arms_list) :
                      /\ dummy_experiment.trials[k].arms = evaluated_arms_list[k]
                      /\ dummy_experiment.trials[k].status = "COMPLETED"
                      /\ traces.oracle_trace[k] =
                            Max({TestFunction(a) :
                                    a \in UNION {evaluated_arms_list[j] : j \in 1..k}})
                /\ traces.inference_trace =
                      [k \in 1..Len(best_params_list) |->
                          _get_oracle_value_of_params(best_params_list[k])])
    /\ [][traces' # traces =>
            pc = "FINALIZING" /\ ~traces.computed /\ traces'.computed]_vars

\* Trial 0 failed, trials 1 and 2 completed on two steps: position 1 of the
\* oracle trace is of trial 1, position 2 of trial 2, and the second value is
\* the best of both.
C33_Witness ==
    /\ traces.computed
    /\ Cardinality(DOMAIN trials) >= 2
    /\ trials[0] = "FAILED"
    /\ trials[1] = "COMPLETED"
    /\ evaluated_arms_list[1] = TrialArms(1)
    /\ Len(traces.oracle_trace) >= 1
    /\ traces.oracle_trace[1] = TestFunction(<<1, 0>>)

\* C34: for a multi-objective or multi-fidelity/multi-task problem that
\* reports the inference value as its trace, the replication does not fail:
\* no best parameterization is ever recorded, the result has an empty
\* optimization_trace and an empty score_trace, and its oracle_trace and
\* cost_trace have one entry per recorded step.
C34_InferenceAsTraceNotValidated ==
    /\ [](is_moo \/ is_mf_or_mt => pc # "FAILED" /\ best_params_list = <<>>)
    /\ [](/\ result.built
          /\ result.report_inference_value_as_trace
          /\ is_moo \/ is_mf_or_mt
          => /\ result.optimization_trace = <<>>
             /\ result.score_trace = <<>>
             /\ Len(result.oracle_trace) = Len(evaluated_arms_list)
             /\ Len(result.cost_trace) = Len(evaluated_arms_list))

\* A multi-fidelity problem that is not multi-objective, two recorded steps,
\* the inference trace chosen: the result is built and has nothing to score.
C34_Witness ==
    /\ pc = "DONE"
    /\ result.built
    /\ result.report_inference_value_as_trace
    /\ is_mf_or_mt
    /\ ~is_moo
    /\ Len(evaluated_arms_list) = 2
    /\ Len(result.oracle_trace) = 2
    /\ Len(result.cost_trace) = 2
    /\ result.optimization_trace = <<>>

\* ------------------------------------------------------------------------
\* The probabilities of violation
\* ------------------------------------------------------------------------
\* C35: given constraints none of which is relative,
\* get_constraint_violated_probabilities returns for every constraint, under
\* the name of its metric, one probability of violation per prediction (1
\* minus the feasibility of that constraint), and under
\* 'any_constraint_violated' 1 minus the product of the feasibilities of all
\* the constraints it was given, two constraints on one metric included.
C35_EveryConstraintTakesPart ==
    (fn_out.done /\ fn_out.out.raised = "none") =>
        LET outcome_constraints == fn_args.outcome_constraints
            n == fn_args.n_predictions
        IN  /\ \A i \in 1..Len(outcome_constraints) :
                  /\ outcome_constraints[i].metric \in DOMAIN fn_out.out.returned
                  /\ fn_out.out.returned[outcome_constraints[i].metric] =
                        [k \in 1..n |-> 1 - fn_out.feasible[i][k]]
            /\ fn_out.out.returned["any_constraint_violated"] =
                  [k \in 1..n |->
                      1 - Product([i \in 1..Len(outcome_constraints) |->
                                      fn_out.feasible[i][k]])]

\* m1 >= a and m1 <= b as two constraints, one prediction that meets the
\* upper bound and not the lower one: it is reported as violating nothing.
C35_Witness ==
    /\ fn_out.done
    /\ fn_args.n_predictions = 1
    /\ fn_args.outcome_constraints =
          <<[relative |-> FALSE, metric |-> "m1", op |-> "GEQ"],
            [relative |-> FALSE, metric |-> "m1", op |-> "LEQ"]>>
    /\ fn_out.feasible = <<<<0>>, <<1>>>>
    /\ fn_out.out.raised = "none"
    /\ DOMAIN fn_out.out.returned = {"m1", "any_constraint_violated"}
    /\ fn_out.out.returned["m1"] = <<0>>
    /\ fn_out.out.returned["any_constraint_violated"] = <<0>>

\* ------------------------------------------------------------------------
\* The baseline value
\* ------------------------------------------------------------------------
\* C36: compute_baseline_value_from_sobol runs n_repeats replications, with
\* seeds 0..n_repeats-1 in this order, of a dummy problem of 5 trials whose
\* target_fidelity_and_task is the mapping the caller supplied, and the
\* empty mapping when the caller supplied None.
C36_BaselineAtTargetFidelityAndTask ==
    fn_out.done =>
        /\ Len(fn_out.calls) = fn_args.n_repeats
        /\ \A i \in 1..Len(fn_out.calls) :
              /\ fn_out.calls[i].seed = i - 1
              /\ fn_out.calls[i].problem.num_trials = 5
              /\ fn_out.calls[i].problem.target_fidelity_and_task =
                    IF fn_args.target_fidelity_and_task.is_none
                    THEN {}
                    ELSE fn_args.target_fidelity_and_task.items

\* The caller names a target fidelity; two replications have run, with seeds
\* 0 and 1, on a dummy problem of 5 trials that has no target at all.
C36_Witness ==
    /\ fn_out.done
    /\ fn_args.n_repeats = 2
    /\ fn_args.target_fidelity_and_task = [is_none |-> FALSE, items |-> {<<"fidelity", 1>>}]
    /\ Len(fn_out.calls) = 2
    /\ fn_out.calls[1].seed = 0
    /\ fn_out.calls[2].seed = 1
    /\ fn_out.calls[2].problem.num_trials = 5
    /\ fn_out.calls[2].problem.target_fidelity_and_task = {}

\* ------------------------------------------------------------------------
\* The candidate trial of the predicted effects plot
\* ------------------------------------------------------------------------
\* C37: given an experiment and a GenerationStrategy,
\* PredictedEffectsPlot.compute takes as candidate trial the trial of
\* highest index among those whose status is not ABANDONED; when the
\* experiment has no trial, and when all its trials are ABANDONED, it raises
\* the UserInputError that says so, returns no card and fits no model.
C37_CandidateIsLastTrialNotAbandoned ==
    (/\ fn_out.done
     /\ ~fn_args.experiment.is_none
     /\ fn_args.generation_strategy.kind = "GenerationStrategy") =>
        LET statuses == fn_args.experiment.trials
            kept == {i \in 1..Len(statuses) : statuses[i] # "ABANDONED"}
        IN  IF kept = {}
            THEN fn_out.out = UserInputError(NoTrials)
            ELSE /\ fn_out.out.raised = "none"
                 /\ fn_out.out.card
                 /\ statuses[fn_out.out.candidate_trial + 1] # "ABANDONED"
                 /\ \A i \in kept : i - 1 <= fn_out.out.candidate_trial

\* Trial 0 is completed and trial 1, the last one, is abandoned: the
\* candidate is trial 0.
C37_Witness ==
    /\ fn_out.done
    /\ fn_args.generation_strategy.kind = "GenerationStrategy"
    /\ ~fn_args.experiment.is_none
    /\ fn_args.experiment.trials = <<"COMPLETED", "ABANDONED">>
    /\ fn_out.out.raised = "none"
    /\ fn_out.out.candidate_trial = 0

\* Two trials, both abandoned: the error of an experiment without trials.
C37_WitnessAllAbandoned ==
    /\ fn_out.done
    /\ fn_args.generation_strategy.kind = "GenerationStrategy"
    /\ ~fn_args.experiment.is_none
    /\ fn_args.experiment.trials = <<"ABANDONED", "ABANDONED">>
    /\ fn_out.out.raised = NoTrials
    /\ ~fn_out.out.card

\* No trial at all: the same error.
C37_WitnessNoTrials ==
    /\ fn_out.done
    /\ fn_args.generation_strategy.kind = "GenerationStrategy"
    /\ ~fn_args.experiment.is_none
    /\ fn_args.experiment.trials = <<>>
    /\ fn_out.out.raised = NoTrials

\* ------------------------------------------------------------------------
\* The generation strategy of a benchmark method
\* ------------------------------------------------------------------------
\* C38: the construction of a BenchmarkMethod with a node-based generation
\* strategy raises NotImplementedError without clone_reset having been
\* called; otherwise it succeeds, the strategy the method holds is another
\* object than the caller's, in the base state, with as many steps, every
\* step of it has a model_kwargs dict in which fit_tracking_metrics is False
\* and whose other items are those the caller's step had; in both cases the
\* caller's object is as it was.
C38_MethodHoldsResetCloneNotFittingTrackingMetrics ==
    fn_out.done =>
        LET caller == fn_args.generation_strategy
            held == fn_out.out.held
        IN  /\ fn_out.out.original = caller
            /\ IF caller.is_node_based
               THEN /\ fn_out.out.raised = "NotImplementedError"
                    /\ fn_out.out.clone_calls = 0
               ELSE /\ fn_out.out.raised = "none"
                    /\ fn_out.out.clone_calls = 1
                    /\ held.id # caller.id
                    /\ held.generated = 0
                    /\ Len(held.steps) = Len(caller.steps)
                    /\ \A i \in 1..Len(held.steps) :
                          /\ ~held.steps[i].is_none
                          /\ <<"fit_tracking_metrics", FALSE>> \in held.steps[i].items
                          /\ <<"fit_tracking_metrics", TRUE>> \notin held.steps[i].items
                          /\ {kv \in held.steps[i].items : kv[1] # "fit_tracking_metrics"} =
                                {kv \in caller.steps[i].items : kv[1] # "fit_tracking_metrics"}

\* A used strategy of two steps, the first without model_kwargs, the second
\* with fit_tracking_metrics True: the method holds a clone with False in
\* both, and two warnings were logged.
C38_Witness ==
    /\ fn_out.done
    /\ ~fn_args.generation_strategy.is_node_based
    /\ fn_args.generation_strategy.generated = 1
    /\ Len(fn_args.generation_strategy.steps) = 2
    /\ fn_args.generation_strategy.steps[1].is_none
    /\ fn_args.generation_strategy.steps[2].items = {<<"fit_tracking_metrics", TRUE>>}
    /\ fn_out.out.raised = "none"
    /\ fn_out.out.held.id = "clone"
    /\ fn_out.out.held.steps[1].items = {<<"fit_tracking_metrics", FALSE>>}
    /\ fn_out.out.held.steps[2].items = {<<"fit_tracking_metrics", FALSE>>}
    /\ fn_out.out.warnings = 2

\* A node-based strategy: refused, nothing cloned.
C38_WitnessNodeBased ==
    /\ fn_out.done
    /\ fn_args.generation_strategy.is_node_based
    /\ fn_args.generation_strategy.steps # <<>>
    /\ fn_out.out.raised = "NotImplementedError"
    /\ fn_out.out.clone_calls = 0

\* The key absent from a dict with another item, and the key False already
\* (no warning then).
C38_WitnessAbsentAndFalse ==
    /\ fn_out.done
    /\ ~fn_args.generation_strategy.is_node_based
    /\ Len(fn_args.generation_strategy.steps) = 2
    /\ ~fn_args.generation_strategy.steps[1].is_none
    /\ fn_args.generation_strategy.steps[1].items = {<<"torch_device", TRUE>>}
    /\ fn_args.generation_strategy.steps[2].items = {<<"fit_tracking_metrics", FALSE>>}
    /\ fn_out.out.held.steps[1].items =
          {<<"torch_device", TRUE>>, <<"fit_tracking_metrics", FALSE>>}
    /\ fn_out.out.warnings = 1

====
